---- MODULE Spec2Model ----
(***************************************************************************)
(* Verification model of TaintMini (OSUSecLab/TaintMini).                  *)
(*                                                                         *)
(* The module holds several state machines over one set of variables, one  *)
(* per part of the program:                                                *)
(*   SpecFilter     taint_mini/taintmini.py  filter_results                *)
(*   SpecInterPage  taint_mini/inter_page.py, storage.py InterPageStorage  *)
(*   SpecListener   taint_mini/taintmini.py  analyze_listener on any queue *)
(*   SpecPool       taint_mini/taintmini.py  analyze_mini_program: the     *)
(*                  main process, the pool, the page workers and the two   *)
(*                  listeners; SpecPoolFair adds the scheduler's fairness  *)
(*   SpecPdg        pdg_js/build_pdg.py get_data_flow, build_ast.py        *)
(*                  get_extended_ast, data_flow.py data_flow, and the      *)
(*                  resolver's use of the returned PDG                     *)
(*   SpecResolver   pdg_js/data_flow.py df_scoping and taint_mini/wxjs.py  *)
(*                  handle_wxjs on the AST of one page script              *)
(* Each specification initialises the variables of the other parts to an   *)
(* idle value and leaves them unchanged.                                   *)
(***************************************************************************)
EXTENDS Integers, Sequences, FiniteSets, TLC

VARIABLES
    \* ---- filter_results (taintmini.py:10-43)
    fResults,     \* the `results` argument: page -> list of flows
    fConfig,      \* the `config` argument
    fOut,         \* what the call produced: a dict, or the exception raised
    fPc,          \* "start" | "done"
    \* ---- inter-page store and stitcher (inter_page.py, storage.py:64-103)
    ipInput,      \* the per-page Storage objects the workers produced
    ipPending,    \* pages whose Storage has not been added yet
    ipStore,      \* InterPageStorage: page_asts, page_results, page_events
    ipOut,        \* what handle_inter_page_data produced
    ipPc,         \* "adding" | "resolved"
    \* ---- analyze_mini_program and its processes (taintmini.py:46-172)
    poolSize,     \* number of processes of mp.Pool
    taskq,        \* tasks handed to the pool and not yet taken by a process
    pageOrder,    \* the iteration order of the set `pages`
    pResults,     \* page -> the flows handle_wxjs finds on it
    mpc,          \* position of the main process
    mIdx,         \* index of the page loops of the main process
    wpc,          \* page -> position of its analyze_worker task
    lpc,          \* position of analyze_listener
    iplpc,        \* position of inter_page_analyze_listener
    qLog,         \* every message put on `queue`, in order
    qRead,        \* how many of them analyze_listener has taken
    ipqLog,       \* every message put on `inter_page_queue`, in order
    ipqRead,      \* how many of them the inter-page listener has taken
    csv,          \* lines of <app>-result.csv
    ipcsv,        \* lines of <app>-inter-page-result.csv
    resolveCount, \* number of calls of handle_inter_page_data
    logged,       \* pages whose failure the main process printed
    \* ---- get_data_flow (build_pdg.py:82-205) and what the page yields
    parserOutcome, \* what running the external parser does
    astParent,    \* the AST: astParent[i] is the parent of node i, node 1 the root
    dfStack,      \* the root and, above it, the nodes whose data_flow call is active
    dfVisited,    \* nodes data_flow has been called on
    dfExc,        \* the exception in flight during data-flow construction
    alarmFired,   \* the SIGALRM of utility_df.Timeout has been delivered
    benchmarks,   \* the `benchmarks` dict: its 'errors' list
    pdgRet,       \* what get_data_flow returned or raised
    pdgPc,        \* position of the page's analysis
    pageRows,     \* result rows the page yields
    pageEvents,   \* events the page yields
    \* ---- one page script through the data-flow pass and the resolver
    program,      \* the script: declaration kind, source API, sink API, arguments
    ast,          \* its AST as ast_to_ast_nodes builds it
    data_dep,     \* the data dependencies drawn: <<begin, extremity>> in order
    rsPc,         \* "ast" | "pdg" | "methods" | "dfs" | "done"
    methods,      \* method nodes find_page_methods_node has yet to search
    method_name,  \* the method dfs_search is in
    stack,        \* dfs_search's stack
    visited,      \* dfs_search's visited list
    rsResults,    \* Storage.results of the page
    rsEvents,     \* Storage.events of the page
    method_errors, \* methods whose search ended in an exception, this run
    runs,         \* calls of handle_wxjs that have returned
    previous,     \* what the previous run left: result rows, events, and the PDG it was given
    \* ---- compute_operators (js_operators.py:152-236) under a variable declaration
    opCall,       \* the operator and the two evaluated operands
    opOut,        \* what compute_operators produced: a value, or the exception raised
    opDeclared,   \* names the declaration `var y = a <op> b, z = y` has put in scope
    opPc,         \* "declared" | "computed" | "done"
    \* ---- get_node_computed_value (js_operators.py:100-149) on a graph of nodes
    cvCells,      \* node -> its value cell (Value.value), None for the other nodes
    cvTop,        \* the node of the top-level call
    cvCount,      \* node -> how often the call evaluated it
    cvOut,        \* what the call produced
    cvPc,         \* "graph" | "done"
    \* ---- data dependencies of top-level statements (data_flow.py:231-404)
    ddScript,     \* the statements of the script
    ddDone,       \* how many of them data_flow has traversed
    ddScope,      \* the Global scope: var_list, var_if2_list, unknown_var
    ddEdges,      \* the data dependencies <<u, v>>, in drawing order
    \* ---- the control-flow builder (control_flow.py:173-197)
    cfAst,        \* the AST of the script
    cfTodo,       \* the nodes control_flow has yet to visit
    cfDeps,       \* the control and statement dependency lists
    \* ---- Function scopes on the scope stack (data_flow.py:442-521)
    fsCalls,      \* the call graph: <<caller, callee>>
    fsScopes,     \* the list of scopes
    fsFrames,     \* the handlers in progress, innermost last
    fsLast,       \* what the last function_scope call did
    \* ---- the size of stored values (node.py:193-275)
    vsCells,      \* Value.value of the nodes written, in order
    vsHeap,       \* the mappings the cells refer to
    \* ---- function_hoisting (build_pdg.py:48-59)
    hsAst,        \* the AST before hoisting
    hsChildren,   \* Node.children of every node
    hsParent,     \* Node.parent of every node
    hsMoves,      \* how often adopt_child has moved a node
    hsStack,      \* the calls of function_hoisting in progress
    \* ---- the let/const scopes of df_scoping (data_flow.py:739-746, 935-948)
    lcAst,        \* the AST of the script
    lcScopes,     \* the list `scopes` the handlers share
    lcFrames,     \* the calls of build_dfg_content in progress
    \* ---- Value.set_provenance (node.py:301-336)
    pvNodes,      \* value-bearing node -> its provenance lists and sets
    pvCalls,      \* the set_provenance calls made: <<self, extremity>>
    \* ---- handle_call_expr (data_flow.py:821-891)
    ceParams,     \* Value.value of every parameter of the called function
    ceCalls,      \* the calls handled: kind, arguments, cells before
    \* ---- handle_wxml (wxml.py:5-93)
    wxInput,      \* the shape of the submit handler and the forms of the markup
    wxAttrs,      \* node -> its double_binding_values attribute
    wxVisit,      \* forms visited, and the exception that ended the traversal
    \* ---- scopes through blocks and the branches of a conditional
    bsScript,     \* the statements traversed so far, the function declaration first
    bsRun         \* the scopes, the lists var_if2_list refers to and the data dependencies

fltVars == <<fResults, fConfig, fOut, fPc>>
ipVars == <<ipInput, ipPending, ipStore, ipOut, ipPc>>
poolVars == <<poolSize, taskq, pageOrder, pResults, mpc, mIdx, wpc, lpc, iplpc,
              qLog, qRead, ipqLog, ipqRead, csv, ipcsv, resolveCount, logged>>
pdgVars == <<parserOutcome, astParent, dfStack, dfVisited, dfExc, alarmFired,
             benchmarks, pdgRet, pdgPc, pageRows, pageEvents>>
rsVars == <<program, ast, data_dep, rsPc, methods, method_name, stack, visited,
            rsResults, rsEvents, method_errors, runs, previous>>
appVars == <<fltVars, ipVars, poolVars, pdgVars, rsVars>>
opVars == <<opCall, opOut, opDeclared, opPc>>
cvVars == <<cvCells, cvTop, cvCount, cvOut, cvPc>>
ddVars == <<ddScript, ddDone, ddScope, ddEdges>>
cfVars == <<cfAst, cfTodo, cfDeps>>
fsVars == <<fsCalls, fsScopes, fsFrames, fsLast>>
vsVars == <<vsCells, vsHeap>>
hsVars == <<hsAst, hsChildren, hsParent, hsMoves, hsStack>>
lcVars == <<lcAst, lcScopes, lcFrames>>
pvVars == <<pvNodes, pvCalls>>
ceVars == <<ceParams, ceCalls>>
wxVars == <<wxInput, wxAttrs, wxVisit>>
bsVars == <<bsScript, bsRun>>
jsVars == <<opVars, cvVars, ddVars, cfVars, fsVars, vsVars, hsVars, lcVars, pvVars, ceVars,
            wxVars, bsVars>>
opOthers == <<appVars, cvVars, ddVars, cfVars, fsVars, vsVars, hsVars, lcVars, pvVars,
              ceVars, wxVars, bsVars>>
cvOthers == <<appVars, opVars, ddVars, cfVars, fsVars, vsVars, hsVars, lcVars, pvVars,
              ceVars, wxVars, bsVars>>
ddOthers == <<appVars, opVars, cvVars, cfVars, fsVars, vsVars, hsVars, lcVars, pvVars,
              ceVars, wxVars, bsVars>>
cfOthers == <<appVars, opVars, cvVars, ddVars, fsVars, vsVars, hsVars, lcVars, pvVars,
              ceVars, wxVars, bsVars>>
fsOthers == <<appVars, opVars, cvVars, ddVars, cfVars, vsVars, hsVars, lcVars, pvVars,
              ceVars, wxVars, bsVars>>
vsOthers == <<appVars, opVars, cvVars, ddVars, cfVars, fsVars, hsVars, lcVars, pvVars,
              ceVars, wxVars, bsVars>>
hsOthers == <<appVars, opVars, cvVars, ddVars, cfVars, fsVars, vsVars, lcVars, pvVars,
              ceVars, wxVars, bsVars>>
lcOthers == <<appVars, opVars, cvVars, ddVars, cfVars, fsVars, vsVars, hsVars, pvVars,
              ceVars, wxVars, bsVars>>
pvOthers == <<appVars, opVars, cvVars, ddVars, cfVars, fsVars, vsVars, hsVars, lcVars,
              ceVars, wxVars, bsVars>>
ceOthers == <<appVars, opVars, cvVars, ddVars, cfVars, fsVars, vsVars, hsVars, lcVars,
              pvVars, wxVars, bsVars>>
wxOthers == <<appVars, opVars, cvVars, ddVars, cfVars, fsVars, vsVars, hsVars, lcVars,
              pvVars, ceVars, bsVars>>
bsOthers == <<appVars, opVars, cvVars, ddVars, cfVars, fsVars, vsVars, hsVars, lcVars,
              pvVars, ceVars, wxVars>>
vars == <<appVars, jsVars>>

(***************************************************************************)
(* Bounds of the model.                                                    *)
(***************************************************************************)
MaxFlows == 2       \* flows per page in a results dict
MaxEvents == 2      \* events per page in a Storage
MaxMessages == 4    \* messages on the result queue when the listener runs alone
MaxJobs == 2        \* largest value of the --jobs option
MaxCpu == 3         \* largest mp.cpu_count()
MaxNodes == 4       \* nodes of the AST of a page, the Program root included
MaxRuns == 2        \* calls of handle_wxjs on one PDG

(***************************************************************************)
(* Shared vocabulary: page paths, API names, flows.                        *)
(***************************************************************************)
None == "None"

Pages == {"foo", "bar"}

SrcStorage == "wx.getStorageSync"
SrcDoubleBinding == "[data from double binding: u, type: text]"
DoubleBindingMarker == "[double_binding]"
SinkRequest == "wx.request"
SinkSetStorage == "wx.setStorage"

FlowSources == {SrcStorage, SrcDoubleBinding}
FlowSinks == {SinkRequest, SinkSetStorage}

\* wxjs.py:191,196,201: the strings the resolver builds with the prefix
\* "[data from"; the substring test of taintmini.py:27 is true of exactly these
ContainsDataFrom(s) == s \in {SrcDoubleBinding, "[data from page parameter: e]"}

\* wxjs.py:366-371: one result row (method and ident are fixed here: the filter
\* reads source and sink only)
Flow(src, snk) == [method |-> "onLoad", ident |-> "v", source |-> src, sink |-> snk]
Flows == {Flow(s, k) : s \in FlowSources, k \in FlowSinks}

SeqsUpTo(S, n) == UNION {[1..k -> S] : k \in 0..n}

RECURSIVE Concat(_)
Concat(ss) == IF ss = <<>> THEN <<>> ELSE Head(ss) \o Concat(Tail(ss))

Count(s, x) == Cardinality({i \in DOMAIN s : s[i] = x})

(***************************************************************************)
(* Idle values: what a specification gives the variables of the other      *)
(* parts.                                                                  *)
(***************************************************************************)
FilterIdle ==
    /\ fResults = <<>>
    /\ fConfig = [hasSources |-> FALSE, sources |-> {}, hasSinks |-> FALSE, sinks |-> {}]
    /\ fOut = [kind |-> "none", value |-> <<>>]
    /\ fPc = "idle"

InterPageIdle ==
    /\ ipInput = <<>>
    /\ ipPending = {}
    /\ ipStore = [instance |-> FALSE, page_asts |-> <<>>, page_results |-> <<>>,
                  page_events |-> <<>>]
    /\ ipOut = [kind |-> "none", value |-> <<>>]
    /\ ipPc = "idle"

PoolIdle ==
    /\ poolSize = 0
    /\ taskq = <<>>
    /\ pageOrder = <<>>
    /\ pResults = <<>>
    /\ mpc = "idle"
    /\ mIdx = 0
    /\ wpc = [p \in Pages |-> "none"]
    /\ lpc = "none"
    /\ iplpc = "none"
    /\ qLog = <<>>
    /\ qRead = 0
    /\ ipqLog = <<>>
    /\ ipqRead = 0
    /\ csv = <<>>
    /\ ipcsv = <<>>
    /\ resolveCount = 0
    /\ logged = {}

NoReturn == [kind |-> "none", name |-> "", children |-> <<>>]

PdgIdle ==
    /\ parserOutcome = "idle"
    /\ astParent = <<>>
    /\ dfStack = <<>>
    /\ dfVisited = {}
    /\ dfExc = "none"
    /\ alarmFired = FALSE
    /\ benchmarks = [hasErrors |-> FALSE, errors |-> <<>>]
    /\ pdgRet = NoReturn
    /\ pdgPc = "idle"
    /\ pageRows = 0
    /\ pageEvents = 0

ResolverIdle ==
    /\ program = None
    /\ ast = None
    /\ data_dep = <<>>
    /\ rsPc = "idle"
    /\ methods = <<>>
    /\ method_name = None
    /\ stack = <<>>
    /\ visited = <<>>
    /\ rsResults = <<>>
    /\ rsEvents = <<>>
    /\ method_errors = <<>>
    /\ runs = 0
    /\ previous = [results |-> <<>>, events |-> <<>>, data_dep |-> <<>>]

OperatorsIdle ==
    /\ opCall = <<>>
    /\ opOut = [kind |-> "none"]
    /\ opDeclared = <<>>
    /\ opPc = "idle"

ValueIdle ==
    /\ cvCells = <<>>
    /\ cvTop = 0
    /\ cvCount = <<>>
    /\ cvOut = [kind |-> "none"]
    /\ cvPc = "idle"

DataDepIdle ==
    /\ ddScript = <<>>
    /\ ddDone = 0
    /\ ddScope = <<>>
    /\ ddEdges = <<>>

ControlFlowIdle ==
    /\ cfAst = <<>>
    /\ cfTodo = <<>>
    /\ cfDeps = <<>>

FunctionScopeIdle ==
    /\ fsCalls = {}
    /\ fsScopes = <<>>
    /\ fsFrames = <<>>
    /\ fsLast = "none"

ValueSizeIdle ==
    /\ vsCells = <<>>
    /\ vsHeap = <<>>

HoistingIdle ==
    /\ hsAst = <<>>
    /\ hsChildren = <<>>
    /\ hsParent = <<>>
    /\ hsMoves = <<>>
    /\ hsStack = <<>>

LetConstIdle ==
    /\ lcAst = <<>>
    /\ lcScopes = <<>>
    /\ lcFrames = <<>>

ProvenanceIdle ==
    /\ pvNodes = <<>>
    /\ pvCalls = <<>>

CallExprIdle ==
    /\ ceParams = <<>>
    /\ ceCalls = <<>>

WxmlIdle ==
    /\ wxInput = <<>>
    /\ wxAttrs = <<>>
    /\ wxVisit = <<>>

BranchesIdle ==
    /\ bsScript = <<>>
    /\ bsRun = <<>>

AppIdle ==
    /\ FilterIdle
    /\ InterPageIdle
    /\ PoolIdle
    /\ PdgIdle
    /\ ResolverIdle

JsIdle ==
    /\ OperatorsIdle
    /\ ValueIdle
    /\ DataDepIdle
    /\ ControlFlowIdle
    /\ FunctionScopeIdle
    /\ ValueSizeIdle
    /\ HoistingIdle
    /\ LetConstIdle
    /\ ProvenanceIdle
    /\ CallExprIdle
    /\ WxmlIdle
    /\ BranchesIdle

OperatorsOthersIdle ==
    /\ AppIdle
    /\ ValueIdle
    /\ DataDepIdle
    /\ ControlFlowIdle
    /\ FunctionScopeIdle
    /\ ValueSizeIdle
    /\ HoistingIdle
    /\ LetConstIdle
    /\ ProvenanceIdle
    /\ CallExprIdle
    /\ WxmlIdle
    /\ BranchesIdle

ValueOthersIdle ==
    /\ AppIdle
    /\ OperatorsIdle
    /\ DataDepIdle
    /\ ControlFlowIdle
    /\ FunctionScopeIdle
    /\ ValueSizeIdle
    /\ HoistingIdle
    /\ LetConstIdle
    /\ ProvenanceIdle
    /\ CallExprIdle
    /\ WxmlIdle
    /\ BranchesIdle

DataDepOthersIdle ==
    /\ AppIdle
    /\ OperatorsIdle
    /\ ValueIdle
    /\ ControlFlowIdle
    /\ FunctionScopeIdle
    /\ ValueSizeIdle
    /\ HoistingIdle
    /\ LetConstIdle
    /\ ProvenanceIdle
    /\ CallExprIdle
    /\ WxmlIdle
    /\ BranchesIdle

ControlFlowOthersIdle ==
    /\ AppIdle
    /\ OperatorsIdle
    /\ ValueIdle
    /\ DataDepIdle
    /\ FunctionScopeIdle
    /\ ValueSizeIdle
    /\ HoistingIdle
    /\ LetConstIdle
    /\ ProvenanceIdle
    /\ CallExprIdle
    /\ WxmlIdle
    /\ BranchesIdle

FunctionScopeOthersIdle ==
    /\ AppIdle
    /\ OperatorsIdle
    /\ ValueIdle
    /\ DataDepIdle
    /\ ControlFlowIdle
    /\ ValueSizeIdle
    /\ HoistingIdle
    /\ LetConstIdle
    /\ ProvenanceIdle
    /\ CallExprIdle
    /\ WxmlIdle
    /\ BranchesIdle

ValueSizeOthersIdle ==
    /\ AppIdle
    /\ OperatorsIdle
    /\ ValueIdle
    /\ DataDepIdle
    /\ ControlFlowIdle
    /\ FunctionScopeIdle
    /\ HoistingIdle
    /\ LetConstIdle
    /\ ProvenanceIdle
    /\ CallExprIdle
    /\ WxmlIdle
    /\ BranchesIdle

HoistingOthersIdle ==
    /\ AppIdle
    /\ OperatorsIdle
    /\ ValueIdle
    /\ DataDepIdle
    /\ ControlFlowIdle
    /\ FunctionScopeIdle
    /\ ValueSizeIdle
    /\ LetConstIdle
    /\ ProvenanceIdle
    /\ CallExprIdle
    /\ WxmlIdle
    /\ BranchesIdle

LetConstOthersIdle ==
    /\ AppIdle
    /\ OperatorsIdle
    /\ ValueIdle
    /\ DataDepIdle
    /\ ControlFlowIdle
    /\ FunctionScopeIdle
    /\ ValueSizeIdle
    /\ HoistingIdle
    /\ ProvenanceIdle
    /\ CallExprIdle
    /\ WxmlIdle
    /\ BranchesIdle

ProvenanceOthersIdle ==
    /\ AppIdle
    /\ OperatorsIdle
    /\ ValueIdle
    /\ DataDepIdle
    /\ ControlFlowIdle
    /\ FunctionScopeIdle
    /\ ValueSizeIdle
    /\ HoistingIdle
    /\ LetConstIdle
    /\ CallExprIdle
    /\ WxmlIdle
    /\ BranchesIdle

CallExprOthersIdle ==
    /\ AppIdle
    /\ OperatorsIdle
    /\ ValueIdle
    /\ DataDepIdle
    /\ ControlFlowIdle
    /\ FunctionScopeIdle
    /\ ValueSizeIdle
    /\ HoistingIdle
    /\ LetConstIdle
    /\ ProvenanceIdle
    /\ WxmlIdle
    /\ BranchesIdle

WxmlOthersIdle ==
    /\ AppIdle
    /\ OperatorsIdle
    /\ ValueIdle
    /\ DataDepIdle
    /\ ControlFlowIdle
    /\ FunctionScopeIdle
    /\ ValueSizeIdle
    /\ HoistingIdle
    /\ LetConstIdle
    /\ ProvenanceIdle
    /\ CallExprIdle
    /\ BranchesIdle

BranchesOthersIdle ==
    /\ AppIdle
    /\ OperatorsIdle
    /\ ValueIdle
    /\ DataDepIdle
    /\ ControlFlowIdle
    /\ FunctionScopeIdle
    /\ ValueSizeIdle
    /\ HoistingIdle
    /\ LetConstIdle
    /\ ProvenanceIdle
    /\ CallExprIdle
    /\ WxmlIdle

(***************************************************************************)
(* filter_results                                                          *)
(***************************************************************************)
\* a JSON config: each key present or absent; the lists are read by
\* membership and length only, so they are sets here
Configs ==
    [hasSources : BOOLEAN, sources : SUBSET (FlowSources \cup {DoubleBindingMarker}),
     hasSinks : BOOLEAN, sinks : SUBSET FlowSinks]

WellFormedConfig(c) ==
    /\ (~c.hasSources => c.sources = {})
    /\ (~c.hasSinks => c.sinks = {})

\* taintmini.py:12,21: "sources" in config and len(config["sources"]) > 0
SourcesGiven(config) == config.hasSources /\ config.sources # {}
\* taintmini.py:13,22,36
SinksGiven(config) == config.hasSinks /\ config.sinks # {}

\* taintmini.py:32: config["sinks"] on a config without the key
RaisesKeyError(config) == SourcesGiven(config) /\ ~SinksGiven(config) /\ ~config.hasSinks

\* taintmini.py:19-39: what one flow appends to filtered[page]
FlowAppends(flow, config) ==
    IF SourcesGiven(config)
    THEN IF SinksGiven(config)
         THEN (IF flow.source \in config.sources /\ flow.sink \in config.sinks
               THEN <<flow>> ELSE <<>>)
              \o
              (IF /\ DoubleBindingMarker \in config.sources
                  /\ ContainsDataFrom(flow.source)
                  /\ flow.sink \in config.sinks
               THEN <<flow>> ELSE <<>>)
         ELSE (IF flow.sink \in config.sinks THEN <<flow>> ELSE <<>>)
    ELSE IF SinksGiven(config)
         THEN (IF flow.sink \in config.sinks THEN <<flow>> ELSE <<>>)
         ELSE <<>>

\* taintmini.py:18-39: filtered[page] after the inner loop
FilteredPage(flows, config) ==
    Concat([i \in DOMAIN flows |-> FlowAppends(flows[i], config)])

\* taintmini.py:10-43
filter_results(results, config) ==
    IF ~SourcesGiven(config) /\ ~SinksGiven(config)
    THEN [kind |-> "ok", value |-> results]
    ELSE IF RaisesKeyError(config) /\ \E p \in DOMAIN results : results[p] # <<>>
    THEN [kind |-> "KeyError", value |-> <<>>]
    ELSE LET kept == {p \in DOMAIN results : FilteredPage(results[p], config) # <<>>}
         IN  [kind |-> "ok",
              value |-> [p \in kept |-> FilteredPage(results[p], config)]]

\* taintmini.py:59: the call made by analyze_worker
FilterResults ==
    /\ fPc = "start"
    /\ fOut' = filter_results(fResults, fConfig)
    /\ fPc' = "done"
    /\ UNCHANGED <<fResults, fConfig>>
    /\ UNCHANGED <<ipVars, poolVars, pdgVars, rsVars, jsVars>>

FilterInit ==
    /\ fResults \in UNION {[ps -> SeqsUpTo(Flows, MaxFlows)] : ps \in SUBSET Pages}
    /\ fConfig \in {c \in Configs : WellFormedConfig(c)}
    /\ fOut = [kind |-> "none", value |-> <<>>]
    /\ fPc = "start"
    /\ InterPageIdle
    /\ PoolIdle
    /\ PdgIdle
    /\ ResolverIdle
    /\ JsIdle

FilterNext == FilterResults

SpecFilter == FilterInit /\ [][FilterNext]_vars

(***************************************************************************)
(* Claims about filter_results                                             *)
(***************************************************************************)
\* the flows of page p in the output (none when the page is absent)
OutFlows(p) ==
    IF fOut.kind = "ok" /\ p \in DOMAIN fOut.value THEN fOut.value[p] ELSE <<>>

\* the keep condition of claim C3
C3_Keeps(flow) ==
    /\ flow.sink \in fConfig.sinks
    /\ \/ flow.source \in fConfig.sources
       \/ DoubleBindingMarker \in fConfig.sources /\ ContainsDataFrom(flow.source)

\* C3: with non-empty sources and sinks, filter_results keeps a flow iff its
\* sink is listed and its source is listed or matches the [double_binding]
\* pseudo-source; a kept flow appears as many times as in the input and a page
\* with no kept flow is absent from the output.
C3_FilterBothGiven ==
    (fPc = "done" /\ SourcesGiven(fConfig) /\ SinksGiven(fConfig)) =>
        /\ fOut.kind = "ok"
        /\ \A p \in DOMAIN fResults : \A f \in Flows :
              Count(OutFlows(p), f) =
                  IF C3_Keeps(f) THEN Count(fResults[p], f) ELSE 0
        /\ \A p \in Pages :
              p \in DOMAIN fOut.value <=>
                  (p \in DOMAIN fResults /\ \E i \in DOMAIN fResults[p] : C3_Keeps(fResults[p][i]))

\* the constraint claim C4 reads from a config with optional keys
C4_Keeps(flow) ==
    /\ (SourcesGiven(fConfig) =>
            \/ flow.source \in fConfig.sources
            \/ DoubleBindingMarker \in fConfig.sources /\ ContainsDataFrom(flow.source))
    /\ (SinksGiven(fConfig) => flow.sink \in fConfig.sinks)

\* C4: `sources` and `sinks` are independently optional: an absent or empty
\* list constrains nothing, the call completes without error in all four
\* combinations, and with neither given the results are returned unchanged.
C4_FilterOptionalKeys ==
    fPc = "done" =>
        /\ fOut.kind = "ok"
        /\ (~SourcesGiven(fConfig) /\ ~SinksGiven(fConfig) => fOut.value = fResults)
        /\ \A p \in DOMAIN fResults : \A f \in Flows :
              (Count(OutFlows(p), f) > 0) <=> (Count(fResults[p], f) > 0 /\ C4_Keeps(f))

(***************************************************************************)
(* Inter-page store and stitcher                                           *)
(***************************************************************************)
\* a Python dict: the sequence of its <<key, value>> items in insertion order
DictKeys(d) == {d[i][1] : i \in DOMAIN d}
DictGet(d, k) == d[CHOOSE i \in DOMAIN d : d[i][1] = k][2]
\* d[k] = v: a key already present keeps its place
DictPut(d, k, v) ==
    IF k \in DictKeys(d)
    THEN [i \in DOMAIN d |-> IF d[i][1] = k THEN <<k, v>> ELSE d[i]]
    ELSE Append(d, <<k, v>>)
\* the dict as a mapping, insertion order forgotten (dict equality of Python)
DictAsMap(d) == [k \in DictKeys(d) |-> DictGet(d, k)]

RECURSIVE SetToSeq(_)
SetToSeq(S) ==
    IF S = {} THEN <<>>
    ELSE LET x == CHOOSE y \in S : TRUE IN <<x>> \o SetToSeq(S \ {x})

\* event_data_source = None: TLC compares a set with sets only, so the absent
\* source set is the set holding the marker None and nothing else
NoSources == {None}

EmitterOpener == "this.getOpenerEventChannel"
EmitterNavigate == "wx.navigateTo"
SrcUserInfo == "wx.getUserInfo"

\* wxjs.py:299-307: one event record (event_call_expr is not read by the
\* stitcher and is left out)
Event(method, type, name, sources, sink, emitter) ==
    [method_name |-> method, event_type |-> type, event_name |-> name,
     event_data_source |-> sources, event_data_sink |-> sink,
     event_emitter |-> emitter]

\* wxjs.py:341-345 records an event with a set of sources and no sink,
\* wxjs.py:358-362 one with a sink and no sources
Events ==
    { Event("onLoad", "on", "msg", NoSources, SinkRequest, EmitterOpener),
      Event("onShow", "on", "msg", NoSources, SinkRequest, EmitterOpener),
      Event("onLoad", "on", "msg", {SrcUserInfo}, None, EmitterOpener),
      Event("go", "emit", "msg", {SrcUserInfo, EmitterNavigate}, None, EmitterNavigate),
      Event("go", "emit", "other", {SrcUserInfo}, None, EmitterNavigate),
      Event("go", "emit", "msg", NoSources, SinkRequest, EmitterNavigate) }

\* storage.py:10-35 after wxjs.py:11-16: the Storage a worker hands over
PageStorage(page, flows, evts) ==
    [page_path |-> page,
     node |-> <<"Program", page>>,
     results |-> <<<<page, flows>>>>,
     events |-> <<<<page, evts>>>>]

RECURSIVE PutAll(_, _)
\* storage.py:84-85, 88-89: for page in d2: d[page] = d2[page]
PutAll(d, d2) ==
    IF d2 = <<>> THEN d ELSE PutAll(DictPut(d, Head(d2)[1], Head(d2)[2]), Tail(d2))

\* storage.py:77-78
add_page_ast(store, page_name, ast_root) ==
    [store EXCEPT !.page_asts = DictPut(@, page_name, ast_root)]
\* storage.py:83-85
add_page_results(store, results) ==
    [store EXCEPT !.page_results = PutAll(@, results)]
\* storage.py:87-89 with the loop replaced by an assignment of the dict
add_page_events_assign(store, events) ==
    [store EXCEPT !.page_events = events]
\* storage.py:87-89
add_page_events(store, events) ==
    [store EXCEPT !.page_events = PutAll(@, events)]

\* storage.py:65-69: InterPageStorage.instance is None until init()
NoStore ==
    [instance |-> FALSE, page_asts |-> <<>>, page_results |-> <<>>, page_events |-> <<>>]

\* storage.py:71-75, 97-99: InterPageStorage.init()
InterPageStorage_init == [NoStore EXCEPT !.instance = TRUE]

\* inter_page.py:4-11
add_inter_page_data(store, storage) ==
    LET inter_page_storage == IF store.instance THEN store ELSE InterPageStorage_init
    IN  add_page_events(
            add_page_results(
                add_page_ast(inter_page_storage, storage.page_path, storage.node),
                storage.results),
            storage.events)

\* the (page, event) pairs in the order of the two nested loops of
\* inter_page.py:30-32 and 55-56
PageEventItems(page_events) ==
    Concat([i \in DOMAIN page_events |->
              [j \in DOMAIN page_events[i][2] |-> <<page_events[i][1], page_events[i][2][j]>>]])

\* inter_page.py:58-64: the events the inner loop does not skip
IsEmitFor(event, event_name) ==
    /\ event.event_type = "emit"
    /\ event.event_name = event_name
    /\ event.event_emitter = EmitterNavigate

\* inter_page.py:65-71: what one emit event appends to emit_sources (the
\* iteration order of a Python set is unspecified: one order is taken here,
\* the properties below count records and do not read their order)
EmitSourcesOf(page, event) ==
    LET srcs == SetToSeq(event.event_data_source \ {EmitterNavigate})
    IN  [k \in DOMAIN srcs |-> [page_name |-> page, event_data_source |-> srcs[k]]]

\* inter_page.py:53-72; `for source in None` raises TypeError
find_event_emit_source(page_events, event_name) ==
    LET items == PageEventItems(page_events)
    IN  IF \E i \in DOMAIN items :
              /\ IsEmitFor(items[i][2], event_name)
              /\ items[i][2].event_data_source = NoSources
        THEN [kind |-> "TypeError", value |-> <<>>]
        ELSE [kind |-> "ok",
              value |-> Concat([i \in DOMAIN items |->
                          IF IsEmitFor(items[i][2], event_name)
                          THEN EmitSourcesOf(items[i][1], items[i][2])
                          ELSE <<>>])]

\* inter_page.py:33-35
IsOpenerOn(event) ==
    /\ event.method_name = "onLoad"
    /\ event.event_type = "on"
    /\ event.event_emitter = EmitterOpener
    /\ event.event_data_sink # None

\* inter_page.py:38-48: the records one `on` event appends
RecordsOf(page, event, emit_sources) ==
    [k \in DOMAIN emit_sources |->
        [from_page |-> emit_sources[k].page_name,
         to_page |-> page,
         event_name |-> event.event_name,
         source |-> emit_sources[k].event_data_source,
         sink |-> event.event_data_sink]]

\* inter_page.py:23-50
resolve_inter_page_flows(page_asts, page_results, page_events) ==
    IF Len(page_events) = 0
    THEN [kind |-> "None", value |-> <<>>]
    ELSE LET items == PageEventItems(page_events)
             found(i) == find_event_emit_source(page_events, items[i][2].event_name)
         IN  IF \E i \in DOMAIN items :
                   IsOpenerOn(items[i][2]) /\ found(i).kind = "TypeError"
             THEN [kind |-> "TypeError", value |-> <<>>]
             ELSE [kind |-> "ok",
                   value |-> Concat([i \in DOMAIN items |->
                               IF IsOpenerOn(items[i][2])
                               THEN RecordsOf(items[i][1], items[i][2], found(i).value)
                               ELSE <<>>])]

\* inter_page.py:14-20
handle_inter_page_data(store) ==
    IF ~store.instance
    THEN [kind |-> "ValueError", value |-> <<>>]
    ELSE resolve_inter_page_flows(store.page_asts, store.page_results, store.page_events)

\* taintmini.py:96-97: the listener receives the Storage of one page
AddInterPageData(p) ==
    /\ ipPc = "adding"
    /\ p \in ipPending
    /\ ipStore' = add_inter_page_data(ipStore, ipInput[p])
    /\ ipPending' = ipPending \ {p}
    /\ UNCHANGED <<ipInput, ipOut, ipPc>>
    /\ UNCHANGED <<fltVars, poolVars, pdgVars, rsVars, jsVars>>

\* taintmini.py:86-88: on "kill", after every Storage has been received
HandleInterPageData ==
    /\ ipPc = "adding"
    /\ ipPending = {}
    /\ ipOut' = handle_inter_page_data(ipStore)
    /\ ipPc' = "resolved"
    /\ UNCHANGED <<ipInput, ipPending, ipStore>>
    /\ UNCHANGED <<fltVars, poolVars, pdgVars, rsVars, jsVars>>

\* the pages whose worker handed a Storage over, each with its own events
InterPageInit ==
    /\ \E ps \in SUBSET Pages :
         \E f \in [ps -> SeqsUpTo(Events, MaxEvents)] :
            /\ ipInput = [p \in ps |-> PageStorage(p, <<>>, f[p])]
            /\ ipPending = ps
    /\ ipStore = NoStore
    /\ ipOut = [kind |-> "none", value |-> <<>>]
    /\ ipPc = "adding"
    /\ FilterIdle
    /\ PoolIdle
    /\ PdgIdle
    /\ ResolverIdle
    /\ JsIdle

InterPageNext ==
    \/ \E p \in Pages : AddInterPageData(p)
    \/ HandleInterPageData

SpecInterPage == InterPageInit /\ [][InterPageNext]_vars

(***************************************************************************)
(* Claims about the inter-page stitcher                                    *)
(***************************************************************************)
\* the events of page p in the store
StoredEvents(p) == DictGet(ipStore.page_events, p)

EventSourcesOrNone(e) ==
    IF e.event_data_source = NoSources THEN {} ELSE e.event_data_source

\* the combinations (P, on event, Q, emit event, source) of claim C2 that
\* give record r
C2_Combinations(r) ==
    LET ks == DictKeys(ipStore.page_events)
    IN  { c \in ks \X (1..MaxEvents + 1) \X ks \X (1..MaxEvents + 1) \X {r.source} :
            /\ c[2] \in DOMAIN StoredEvents(c[1])
            /\ c[4] \in DOMAIN StoredEvents(c[3])
            /\ LET on == StoredEvents(c[1])[c[2]]
                   em == StoredEvents(c[3])[c[4]]
               IN  /\ on.method_name = "onLoad" /\ on.event_type = "on"
                   /\ on.event_emitter = EmitterOpener
                   /\ on.event_data_sink # None
                   /\ em.event_type = "emit" /\ em.event_emitter = EmitterNavigate
                   /\ em.event_name = on.event_name
                   /\ c[5] \in EventSourcesOrNone(em) /\ c[5] # EmitterNavigate
                   /\ r.from_page = c[3] /\ r.to_page = c[1]
                   /\ r.event_name = on.event_name
                   /\ r.sink = on.event_data_sink }

InterPageRecords ==
    [from_page : Pages, to_page : Pages, event_name : {"msg", "other"},
     source : {SrcUserInfo, EmitterNavigate}, sink : {SinkRequest}]

\* C2: resolve_inter_page_flows returns exactly one record for every
\* combination of an onLoad `on` event with emitter this.getOpenerEventChannel
\* and a sink on page P, an `emit` event with emitter wx.navigateTo and the
\* same name on page Q, and a source of that emit event other than
\* "wx.navigateTo"; from_page = Q, to_page = P, and there are no other records.
C2_OneRecordPerCombination ==
    (ipPc = "resolved" /\ ipStore.instance) =>
        /\ ipOut.kind = "ok"
        /\ \A i \in DOMAIN ipOut.value : ipOut.value[i] \in InterPageRecords
        /\ \A r \in InterPageRecords :
              Count(ipOut.value, r) = Cardinality(C2_Combinations(r))

RECURSIVE AddAll(_, _)
AddAll(store, storages) ==
    IF storages = <<>> THEN store
    ELSE AddAll(add_inter_page_data(store, Head(storages)), Tail(storages))

\* the store built by adding the same storages in one fixed order
C7_ReferenceStore ==
    LET ps == SetToSeq(DOMAIN ipInput)
    IN  AddAll(NoStore, [i \in DOMAIN ps |-> ipInput[ps[i]]])

RecordSet(out) == {out.value[i] : i \in DOMAIN out.value}

\* C7: whatever the order in which per-page storages with distinct page paths
\* are added, the inter-page store is the same (as dicts: same keys, same
\* values) and the set of cross-page records resolved from it is the same.
C7_AddOrderIrrelevant ==
    (ipPc \in {"adding", "resolved"} /\ ipPending = {}) =>
        /\ DictAsMap(ipStore.page_asts) = DictAsMap(C7_ReferenceStore.page_asts)
        /\ DictAsMap(ipStore.page_results) = DictAsMap(C7_ReferenceStore.page_results)
        /\ DictAsMap(ipStore.page_events) = DictAsMap(C7_ReferenceStore.page_events)
        /\ DictKeys(ipStore.page_events) = DOMAIN ipInput
        /\ ipStore.instance = C7_ReferenceStore.instance
        /\ (ipPc = "resolved" =>
              /\ ipOut.kind = handle_inter_page_data(C7_ReferenceStore).kind
              /\ RecordSet(ipOut) = RecordSet(handle_inter_page_data(C7_ReferenceStore)))

\* two pages added in the order opposite to the reference one, and records
\* resolved from the store
C7_Witness ==
    /\ ipPc = "resolved"
    /\ Cardinality(DOMAIN ipInput) = 2
    /\ ipStore.page_events # C7_ReferenceStore.page_events
    /\ ipOut.kind = "ok"
    /\ Len(ipOut.value) >= 2

(***************************************************************************)
(* analyze_listener                                                        *)
(***************************************************************************)
Kill == [kind |-> "kill", value |-> <<>>]
\* taintmini.py:61: a filtered-results dict put on the result queue
DictMessage(d) == [kind |-> "dict", value |-> d]
\* taintmini.py:57: a Storage put on the inter-page queue
StorageMessage(st) == [kind |-> "Storage", value |-> st]

\* taintmini.py:66
Header == <<"page_name", "page_method", "ident", "source", "sink">>
\* taintmini.py:74: one line, its five fields joined by "|"
Row(page, flow) == <<page, flow.method, flow.ident, flow.source, flow.sink>>

\* taintmini.py:72-74 with the inner loop left out: one line per page
RowsPerPage(d) ==
    LET ps == SetToSeq({p \in DOMAIN d : d[p] # <<>>})
    IN  [i \in DOMAIN ps |-> Row(ps[i], d[ps[i]][1])]

\* taintmini.py:72-74: the lines written for one dict message
Rows(d) ==
    LET ps == SetToSeq(DOMAIN d)
    IN  Concat([i \in DOMAIN ps |->
                  [j \in DOMAIN d[ps[i]] |-> Row(ps[i], d[ps[i]][j])]])

\* taintmini.py:65-66: the listener opens the file and writes the header
ListenerOpen ==
    /\ lpc = "started"
    /\ csv' = <<Header>>
    /\ lpc' = "loop"
    /\ UNCHANGED <<poolSize, taskq, pageOrder, pResults, mpc, mIdx, wpc, iplpc,
                   qLog, qRead, ipqLog, ipqRead, ipcsv, resolveCount, logged>>
    /\ UNCHANGED <<fltVars, ipVars, pdgVars, rsVars, jsVars>>

\* taintmini.py:68-75: one turn of the loop; queue.get() blocks on an empty
\* queue
ListenerGet ==
    /\ lpc = "loop"
    /\ qRead < Len(qLog)
    /\ LET message == qLog[qRead + 1]
       IN  /\ qRead' = qRead + 1
           /\ IF message = Kill
              THEN lpc' = "done" /\ csv' = csv
              ELSE /\ lpc' = "loop"
                   /\ csv' = IF message.kind = "dict"
                             THEN csv \o Rows(message.value) ELSE csv
    /\ UNCHANGED <<poolSize, taskq, pageOrder, pResults, mpc, mIdx, wpc, iplpc,
                   qLog, ipqLog, ipqRead, ipcsv, resolveCount, logged>>
    /\ UNCHANGED <<fltVars, ipVars, pdgVars, rsVars, jsVars>>

FlowA == Flow(SrcStorage, SinkRequest)
FlowB == Flow(SrcStorage, SinkSetStorage)

\* the messages a queue may hold: "kill" and results dicts
ListenerMessages ==
    { Kill,
      DictMessage(<<>>),
      DictMessage([p \in {"foo"} |-> <<>>]),
      DictMessage([p \in {"foo"} |-> <<FlowA>>]),
      DictMessage([p \in {"bar"} |-> <<FlowB, FlowA>>]) }

\* analyze_listener called on a queue that already holds its messages
ListenerInit ==
    /\ lpc = "started"
    /\ qLog \in SeqsUpTo(ListenerMessages, MaxMessages)
    /\ qRead = 0
    /\ csv = <<>>
    /\ poolSize = 0 /\ taskq = <<>> /\ pageOrder = <<>> /\ pResults = <<>>
    /\ mpc = "idle" /\ mIdx = 0 /\ wpc = [p \in Pages |-> "none"]
    /\ iplpc = "none" /\ ipqLog = <<>> /\ ipqRead = 0 /\ ipcsv = <<>>
    /\ resolveCount = 0 /\ logged = {}
    /\ FilterIdle
    /\ InterPageIdle
    /\ PdgIdle
    /\ ResolverIdle
    /\ JsIdle

ListenerNext == ListenerOpen \/ ListenerGet

SpecListener == ListenerInit /\ [][ListenerNext]_vars

(***************************************************************************)
(* Claims about analyze_listener                                           *)
(***************************************************************************)
\* the messages before the first "kill" (all of them when there is none)
BeforeKill(log) ==
    LET ks == {i \in DOMAIN log : log[i] = Kill}
    IN  IF ks = {} THEN log
        ELSE SubSeq(log, 1, (CHOOSE i \in ks : \A j \in ks : i <= j) - 1)

\* the lines claim C5 expects for a list of dict messages: message by message,
\* page by page, one line per flow
RECURSIVE C5_Lines(_)
C5_Lines(msgs) ==
    IF msgs = <<>> THEN <<>>
    ELSE LET d == Head(msgs).value
             ps == SetToSeq(DOMAIN d)
             line(pg, f) == <<pg, f.method, f.ident, f.source, f.sink>>
             ofPage(pg) == [j \in 1..Len(d[pg]) |-> line(pg, d[pg][j])]
         IN  Concat([i \in DOMAIN ps |-> ofPage(ps[i])]) \o C5_Lines(Tail(msgs))

\* C5: the result listener writes the header once, then for every message put
\* on the queue before "kill" one row per flow, in queue order; it writes
\* nothing after "kill" and terminates when it takes "kill".
C5_ListenerWritesRows ==
    /\ (lpc = "started" => csv = <<>>)
    /\ (lpc \in {"loop", "done"} =>
          /\ csv = <<Header>> \o C5_Lines(BeforeKill(SubSeq(qLog, 1, qRead)))
          /\ Count(csv, Header) = 1)
    /\ (lpc = "done" <=> (qRead >= 1 /\ qLog[qRead] = Kill))
    /\ (lpc = "done" => csv = <<Header>> \o C5_Lines(BeforeKill(qLog)))

\* the listener has taken two messages with rows and then "kill", and a
\* message is left on the queue behind "kill"
C5_Witness ==
    /\ lpc = "done"
    /\ qRead = 3
    /\ Len(qLog) > qRead
    /\ Len(csv) >= 4

(***************************************************************************)
(* analyze_mini_program: main process, pool, workers, listeners            *)
(***************************************************************************)
TaskListener == "analyze_listener"
TaskIpListener == "inter_page_analyze_listener"

\* main.py:20 `-j/--jobs` (type int, default None): absent, or a number
JobsOptions == {<<FALSE, 0>>} \cup {<<TRUE, n>> : n \in 0..MaxJobs}

\* taintmini.py:138: workers + 2 if workers is not None else mp.cpu_count()
PoolSizeOf(workers, cpu_count) ==
    IF workers[1] THEN workers[2] + 2 ELSE cpu_count

Perms(S) == {f \in [1..Cardinality(S) -> S] : \A i, j \in DOMAIN f : f[i] = f[j] => i = j}

\* what handle_wxjs finds on a page: no flow, or two
PageResultChoices == {<<>>, <<FlowA, FlowB>>}

\* the configs the workers filter with: none, and a source list without the
\* "sinks" key
PoolConfigs ==
    { [hasSources |-> FALSE, sources |-> {}, hasSinks |-> FALSE, sinks |-> {}],
      [hasSources |-> TRUE, sources |-> {SrcStorage}, hasSinks |-> FALSE, sinks |-> {}] }

\* the events handle_wxjs records on a page: foo listens on the opener
\* channel, every other page emits to the page it navigates to
PoolPageEvents(p) ==
    IF p = "foo"
    THEN <<Event("onLoad", "on", "msg", NoSources, SinkRequest, EmitterOpener)>>
    ELSE <<Event("go", "emit", "msg", {SrcUserInfo, EmitterNavigate}, None, EmitterNavigate)>>

\* taintmini.py:48-56: the Storage of a page after gen_pdg, handle_wxml and
\* handle_wxjs
WorkerStorage(p) == PageStorage(p, pResults[p], PoolPageEvents(p))

\* the pool processes that are running a task
Busy ==
    Cardinality({p \in Pages : wpc[p] \in {"running", "stored"}})
    + (IF lpc \in {"started", "loop"} THEN 1 ELSE 0)
    + (IF iplpc \in {"started", "loop"} THEN 1 ELSE 0)

\* AsyncResult.get() returns, or raises what the task raised, once the task
\* has ended; with this definition it never waits
job_ready_always(w) == TRUE

\* AsyncResult.get() returns only for a task that ended without raising
job_ready_on_success(w) == w = "done"

\* taintmini.py:162: AsyncResult.get() returns, or raises what the task
\* raised, once the task has ended
job_ready(w) == w \in {"done", "failed"}

\* taintmini.py:141-143: both listeners are handed to the pool first
MainApplyListeners ==
    /\ mpc = "apply_listeners"
    /\ taskq' = taskq \o <<TaskListener, TaskIpListener>>
    /\ lpc' = "pending"
    /\ iplpc' = "pending"
    /\ mpc' = "apply_workers"
    /\ mIdx' = 1
    /\ UNCHANGED <<poolSize, pageOrder, pResults, wpc, qLog, qRead, ipqLog, ipqRead,
                   csv, ipcsv, resolveCount, logged>>
    /\ UNCHANGED <<fltVars, ipVars, pdgVars, rsVars, jsVars>>

\* taintmini.py:152-155: one turn of `for p in pages`
MainApplyWorker ==
    /\ mpc = "apply_workers"
    /\ LET p == pageOrder[mIdx]
       IN  /\ taskq' = Append(taskq, p)
           /\ wpc' = [wpc EXCEPT ![p] = "pending"]
    /\ IF mIdx = Len(pageOrder)
       THEN mpc' = "collect" /\ mIdx' = 1
       ELSE mpc' = mpc /\ mIdx' = mIdx + 1
    /\ UNCHANGED <<poolSize, pageOrder, pResults, lpc, iplpc, qLog, qRead, ipqLog,
                   ipqRead, csv, ipcsv, resolveCount, logged>>
    /\ UNCHANGED <<fltVars, ipVars, pdgVars, rsVars, jsVars>>

\* taintmini.py:160-167: one turn of the collecting loop; an exception of the
\* job is printed and the loop goes on
MainCollect ==
    /\ mpc = "collect"
    /\ LET p == pageOrder[mIdx]
       IN  /\ job_ready(wpc[p])
           /\ logged' = IF wpc[p] # "done" THEN logged \cup {p} ELSE logged
    /\ IF mIdx = Len(pageOrder)
       THEN mpc' = "put_kill" /\ mIdx' = mIdx
       ELSE mpc' = mpc /\ mIdx' = mIdx + 1
    /\ UNCHANGED <<poolSize, taskq, pageOrder, pResults, wpc, lpc, iplpc, qLog, qRead,
                   ipqLog, ipqRead, csv, ipcsv, resolveCount>>
    /\ UNCHANGED <<fltVars, ipVars, pdgVars, rsVars, jsVars>>

\* taintmini.py:169
MainPutKill ==
    /\ mpc = "put_kill"
    /\ qLog' = Append(qLog, Kill)
    /\ mpc' = "put_ip_kill"
    /\ UNCHANGED <<poolSize, taskq, pageOrder, pResults, mIdx, wpc, lpc, iplpc, qRead,
                   ipqLog, ipqRead, csv, ipcsv, resolveCount, logged>>
    /\ UNCHANGED <<fltVars, ipVars, pdgVars, rsVars, jsVars>>

\* taintmini.py:170
MainPutIpKill ==
    /\ mpc = "put_ip_kill"
    /\ ipqLog' = Append(ipqLog, Kill)
    /\ mpc' = "join"
    /\ UNCHANGED <<poolSize, taskq, pageOrder, pResults, mIdx, wpc, lpc, iplpc, qLog,
                   qRead, ipqRead, csv, ipcsv, resolveCount, logged>>
    /\ UNCHANGED <<fltVars, ipVars, pdgVars, rsVars, jsVars>>

\* taintmini.py:171-172: close() and join() return when every task handed to
\* the pool has ended
MainJoin ==
    /\ mpc = "join"
    /\ taskq = <<>>
    /\ Busy = 0
    /\ mpc' = "returned"
    /\ UNCHANGED <<poolSize, taskq, pageOrder, pResults, mIdx, wpc, lpc, iplpc, qLog,
                   qRead, ipqLog, ipqRead, csv, ipcsv, resolveCount, logged>>
    /\ UNCHANGED <<fltVars, ipVars, pdgVars, rsVars, jsVars>>

\* mp.Pool: a free process takes the oldest task
PoolStartTask ==
    /\ taskq # <<>>
    /\ Busy < poolSize
    /\ LET t == Head(taskq)
       IN  /\ lpc' = IF t = TaskListener THEN "started" ELSE lpc
           /\ iplpc' = IF t = TaskIpListener THEN "started" ELSE iplpc
           /\ wpc' = IF t \in Pages THEN [wpc EXCEPT ![t] = "running"] ELSE wpc
    /\ taskq' = Tail(taskq)
    /\ UNCHANGED <<poolSize, pageOrder, pResults, mpc, mIdx, qLog, qRead, ipqLog,
                   ipqRead, csv, ipcsv, resolveCount, logged>>
    /\ UNCHANGED <<fltVars, ipVars, pdgVars, rsVars, jsVars>>

\* taintmini.py:48-57: the page is analysed and its Storage put on the
\* inter-page queue
WorkerAnalyse(p) ==
    /\ wpc[p] = "running"
    /\ ipqLog' = Append(ipqLog, StorageMessage(WorkerStorage(p)))
    /\ wpc' = [wpc EXCEPT ![p] = "stored"]
    /\ UNCHANGED <<poolSize, taskq, pageOrder, pResults, mpc, mIdx, lpc, iplpc, qLog,
                   qRead, ipqRead, csv, ipcsv, resolveCount, logged>>
    /\ UNCHANGED <<fltVars, ipVars, pdgVars, rsVars, jsVars>>

\* taintmini.py:59-61: the results are filtered and put on the result queue;
\* an exception of filter_results ends the task
WorkerFilterPut(p) ==
    /\ wpc[p] = "stored"
    /\ LET filtered == filter_results(DictAsMap(WorkerStorage(p).results), fConfig)
       IN  IF filtered.kind = "ok"
           THEN /\ qLog' = Append(qLog, DictMessage(filtered.value))
                /\ wpc' = [wpc EXCEPT ![p] = "done"]
           ELSE /\ qLog' = qLog
                /\ wpc' = [wpc EXCEPT ![p] = "failed"]
    /\ UNCHANGED <<poolSize, taskq, pageOrder, pResults, mpc, mIdx, lpc, iplpc, qRead,
                   ipqLog, ipqRead, csv, ipcsv, resolveCount, logged>>
    /\ UNCHANGED <<fltVars, ipVars, pdgVars, rsVars, jsVars>>

\* taintmini.py:46-61: any step of analyze_worker raises; the task ends and
\* the pool keeps the exception for AsyncResult.get()
WorkerFail(p) ==
    /\ wpc[p] \in {"running", "stored"}
    /\ wpc' = [wpc EXCEPT ![p] = "failed"]
    /\ UNCHANGED <<poolSize, taskq, pageOrder, pResults, mpc, mIdx, lpc, iplpc, qLog,
                   qRead, ipqLog, ipqRead, csv, ipcsv, resolveCount, logged>>
    /\ UNCHANGED <<fltVars, ipVars, pdgVars, rsVars, jsVars>>

\* taintmini.py:81
IpHeader == <<"from_page", "to_page", "event_name", "source", "sink">>
\* taintmini.py:89-90
IpRow(r) == <<r.from_page, r.to_page, r.event_name, r.source, r.sink>>

\* taintmini.py:80-81
IpListenerOpen ==
    /\ iplpc = "started"
    /\ ipcsv' = <<IpHeader>>
    /\ iplpc' = "loop"
    /\ UNCHANGED <<poolSize, taskq, pageOrder, pResults, mpc, mIdx, wpc, lpc, qLog,
                   qRead, ipqLog, ipqRead, csv, resolveCount, logged>>
    /\ UNCHANGED <<fltVars, ipVars, pdgVars, rsVars, jsVars>>

\* taintmini.py:83-97: one turn of the loop. On "kill" the flows are resolved
\* and written (an exception of the resolution, or of iterating the None it
\* returns for an empty store, is printed) and the listener ends; a Storage
\* is added to the inter-page store.
IpListenerGet ==
    /\ iplpc = "loop"
    /\ ipqRead < Len(ipqLog)
    /\ LET message == ipqLog[ipqRead + 1]
       IN  /\ ipqRead' = ipqRead + 1
           /\ IF message = Kill
              THEN LET results == handle_inter_page_data(ipStore)
                   IN  /\ ipOut' = results
                       /\ resolveCount' = resolveCount + 1
                       /\ ipcsv' = IF results.kind = "ok"
                                   THEN ipcsv \o [i \in DOMAIN results.value |->
                                                    IpRow(results.value[i])]
                                   ELSE ipcsv
                       /\ iplpc' = "done"
                       /\ ipStore' = ipStore
              ELSE /\ ipStore' = add_inter_page_data(ipStore, message.value)
                   /\ UNCHANGED <<ipOut, resolveCount, ipcsv, iplpc>>
    /\ UNCHANGED <<poolSize, taskq, pageOrder, pResults, mpc, mIdx, wpc, lpc, qLog,
                   qRead, ipqLog, csv, logged>>
    /\ UNCHANGED <<fltVars, ipInput, ipPending, ipPc, pdgVars, rsVars, jsVars>>

\* taintmini.py:118-138: the state when the pool has been created
PoolInit ==
    /\ \E workers \in JobsOptions : \E cpu_count \in 1..MaxCpu :
          poolSize = PoolSizeOf(workers, cpu_count)
    /\ taskq = <<>>
    /\ pageOrder \in Perms(Pages)
    /\ pResults \in [Pages -> PageResultChoices]
    /\ mpc = "apply_listeners"
    /\ mIdx = 0
    /\ wpc = [p \in Pages |-> "none"]
    /\ lpc = "none"
    /\ iplpc = "none"
    /\ qLog = <<>> /\ qRead = 0
    /\ ipqLog = <<>> /\ ipqRead = 0
    /\ csv = <<>> /\ ipcsv = <<>>
    /\ resolveCount = 0
    /\ logged = {}
    /\ fResults = <<>>
    /\ fConfig \in PoolConfigs
    /\ fOut = [kind |-> "none", value |-> <<>>]
    /\ fPc = "idle"
    /\ InterPageIdle
    /\ PdgIdle
    /\ ResolverIdle
    /\ JsIdle

MainNext ==
    \/ MainApplyListeners
    \/ MainApplyWorker
    \/ MainCollect
    \/ MainPutKill
    \/ MainPutIpKill
    \/ MainJoin

WorkerNext(p) == WorkerAnalyse(p) \/ WorkerFilterPut(p)

PoolNext ==
    \/ MainNext
    \/ PoolStartTask
    \/ ListenerOpen
    \/ ListenerGet
    \/ IpListenerOpen
    \/ IpListenerGet
    \/ \E p \in Pages : WorkerNext(p)
    \/ \E p \in Pages : WorkerFail(p)

SpecPool == PoolInit /\ [][PoolNext]_vars

\* The operating system schedules every process that can take a step, and a
\* step of one process never disables a step of another, so the program does
\* not halt while some process can step; raising is never forced.
SpecPoolFair == PoolInit /\ [][PoolNext]_vars /\ WF_vars(PoolNext)

(***************************************************************************)
(* Claims about analyze_mini_program                                       *)
(***************************************************************************)
Ended(p) == wpc[p] \in {"done", "failed"}

\* C6: inter-page resolution runs at most once and only when the inter-page
\* listener takes "kill" (it has run once exactly when the listener has ended);
\* at that moment the store holds the events of every page whose worker
\* completed and no Storage is left on the queue; "kill" is on the queue only
\* once every page job has returned or failed.
C6_ResolveOnceAfterAllPages ==
    /\ resolveCount <= 1
    /\ (resolveCount = 1 <=> iplpc = "done")
    /\ ((\E i \in DOMAIN ipqLog : ipqLog[i] = Kill) => \A p \in Pages : Ended(p))
    /\ (resolveCount = 1 =>
          /\ ipqLog[ipqRead] = Kill
          /\ ipqRead = Len(ipqLog)
          /\ \A p \in Pages : Ended(p)
          /\ \A p \in Pages : wpc[p] = "done" =>
                /\ p \in DictKeys(ipStore.page_events)
                /\ DictGet(ipStore.page_events, p) = PoolPageEvents(p))

\* resolution has run with both pages completed and stitched a flow between
\* them
C6_Witness ==
    /\ resolveCount = 1
    /\ \A p \in Pages : wpc[p] = "done"
    /\ ipOut.kind = "ok"
    /\ Len(ipcsv) >= 2

\* the lines of the result file that belong to page p
LinesOf(p) == {i \in DOMAIN csv : csv[i] # Header /\ csv[i][1] = p}

\* what claim C8 promises once a worker has failed
C8_Recovered ==
    /\ mpc = "returned"
    /\ lpc = "done"
    /\ iplpc = "done"
    /\ \E i \in DOMAIN qLog : qLog[i] = Kill
    /\ \E i \in DOMAIN ipqLog : ipqLog[i] = Kill
    /\ \A p \in Pages :
          /\ Ended(p)
          /\ (wpc[p] = "failed" => p \in logged)
    /\ Cardinality({i \in DOMAIN qLog : qLog[i] # Kill}) =
           Cardinality({p \in Pages : wpc[p] = "done"})
    /\ \A i \in DOMAIN qLog : \A p \in DOMAIN qLog[i].value :
          Cardinality(LinesOf(p)) = Len(qLog[i].value[p])

\* C8: when the worker of a page raises, at whatever step, the failure is
\* printed and skipped: every other page is analysed and its rows are written,
\* both listeners take "kill" and analyze_mini_program returns.
C8_WorkerFailureIsSkipped ==
    (\E p \in Pages : wpc[p] = "failed") ~> C8_Recovered

\* one page failed, the other completed and its rows are in the file
C8_Witness ==
    /\ C8_Recovered
    /\ \E p \in Pages : wpc[p] = "failed"
    /\ \E p \in Pages : wpc[p] = "done" /\ Cardinality(LinesOf(p)) >= 1

(***************************************************************************)
(* get_data_flow: parsing, data-flow construction under the timeout, and   *)
(* what the page yields from the returned PDG                              *)
(***************************************************************************)
\* the ASTs: node 1 is the Program root, the parent of node i > 1 is an
\* earlier node
AstShapes ==
    UNION {{f \in [1..n -> 0..n] : f[1] = 0 /\ \A i \in 2..n : f[i] \in 1..(i - 1)} :
              n \in 1..MaxNodes}

\* node.py:83-93: node.children, in order
ChildrenOf(parent, i) ==
    LET cs == {j \in DOMAIN parent : parent[j] = i}
        RECURSIVE Asc(_)
        Asc(S) == IF S = {} THEN <<>>
                  ELSE LET m == CHOOSE x \in S : \A y \in S : x <= y
                       IN  <<m>> \o Asc(S \ {m})
    IN  Asc(cs)

\* node.py: Node(name) before any child is added
EmptyNode(name) == [kind |-> "node", name |-> name, children |-> <<>>]

Raised(exc) == [kind |-> "raised", name |-> exc, children |-> <<>>]

\* build_ast.py:60-66, 88-89: subprocess.run(['node', parser.js, ...],
\* check=True) raises CalledProcessError on a non-zero exit, which is caught
\* and gives None; with no `node` executable it raises FileNotFoundError,
\* which no handler catches
get_extended_ast(outcome) ==
    CASE outcome = "ok" -> [kind |-> "ast", name |-> "ExtendedAst"]
      [] outcome = "nonzero_exit" -> [kind |-> "None", name |-> ""]
      [] outcome = "unreachable" -> [kind |-> "raised", name |-> "FileNotFoundError"]

\* build_pdg.py:129-140, 204-205
Parse ==
    /\ pdgPc = "parse"
    /\ LET extended_ast == get_extended_ast(parserOutcome)
       IN  CASE extended_ast.kind = "raised" ->
                  /\ pdgRet' = Raised(extended_ast.name)
                  /\ pdgPc' = "returned"
                  /\ UNCHANGED <<benchmarks, dfStack>>
             [] extended_ast.kind = "None" ->
                  /\ benchmarks' = [hasErrors |-> TRUE, errors |-> <<"parsing-error">>]
                  /\ pdgRet' = EmptyNode("ParsingError")
                  /\ pdgPc' = "returned"
                  /\ UNCHANGED dfStack
             [] extended_ast.kind = "ast" ->
                  /\ benchmarks' = [hasErrors |-> TRUE, errors |-> <<>>]
                  /\ dfStack' = <<1>>
                  /\ pdgPc' = "df"
                  /\ UNCHANGED pdgRet
    /\ UNCHANGED <<parserOutcome, astParent, dfVisited, dfExc, alarmFired, pageRows,
                   pageEvents>>
    /\ UNCHANGED <<fltVars, ipVars, poolVars, rsVars, jsVars>>

\* the children of the node on top of the stack that data_flow has not been
\* called on yet
Unvisited == {c \in DOMAIN astParent :
                 astParent[c] = dfStack[Len(dfStack)] /\ c \notin dfVisited}

\* data_flow.py:1172-1173, 1203-1204: data_flow(child) is called on the next
\* child; build_dfg_content descends
DfCall ==
    /\ pdgPc = "df"
    /\ dfExc = "none"
    /\ Unvisited # {}
    /\ LET c == CHOOSE x \in Unvisited : \A y \in Unvisited : x <= y
       IN  /\ dfStack' = Append(dfStack, c)
           /\ dfVisited' = dfVisited \cup {c}
    /\ UNCHANGED <<parserOutcome, astParent, dfExc, alarmFired, benchmarks, pdgRet,
                   pdgPc, pageRows, pageEvents>>
    /\ UNCHANGED <<fltVars, ipVars, poolVars, rsVars, jsVars>>

\* data_flow.py:1188: data_flow(child) returns
DfReturn ==
    /\ pdgPc = "df"
    /\ dfExc = "none"
    /\ Len(dfStack) > 1
    /\ Unvisited = {}
    /\ dfStack' = SubSeq(dfStack, 1, Len(dfStack) - 1)
    /\ UNCHANGED <<parserOutcome, astParent, dfVisited, dfExc, alarmFired, benchmarks,
                   pdgRet, pdgPc, pageRows, pageEvents>>
    /\ UNCHANGED <<fltVars, ipVars, poolVars, rsVars, jsVars>>

\* data_flow.py:1173: build_dfg_content raises some exception other than
\* Timeout
DfRaise ==
    /\ pdgPc = "df"
    /\ dfExc = "none"
    /\ Len(dfStack) > 1
    /\ dfExc' = "Error"
    /\ UNCHANGED <<parserOutcome, astParent, dfStack, dfVisited, alarmFired, benchmarks,
                   pdgRet, pdgPc, pageRows, pageEvents>>
    /\ UNCHANGED <<fltVars, ipVars, poolVars, rsVars, jsVars>>

\* utility_df.py:92-100: the alarm is delivered inside the `with` block of
\* build_pdg.py:158-161 and raise_timeout raises Timeout at the point reached,
\* also inside an exception handler
Alarm ==
    /\ pdgPc = "df"
    /\ ~alarmFired
    /\ alarmFired' = TRUE
    /\ dfExc' = "Timeout"
    /\ UNCHANGED <<parserOutcome, astParent, dfStack, dfVisited, benchmarks, pdgRet,
                   pdgPc, pageRows, pageEvents>>
    /\ UNCHANGED <<fltVars, ipVars, poolVars, rsVars, jsVars>>

\* data_flow.py:1175-1186 with the Timeout clause removed: every exception is
\* passed over
data_flow_except_all(exc) == "none"

\* data_flow.py:1175-1186: the exception data_flow leaves in flight; Timeout
\* is raised again, any other one is passed over
data_flow_except(exc) == IF exc = "Timeout" THEN "Timeout" ELSE "none"

\* data_flow.py:1172-1188: an exception reaches the handlers of the innermost
\* data_flow call
DfExcept ==
    /\ pdgPc = "df"
    /\ dfExc # "none"
    /\ Len(dfStack) > 1
    /\ dfExc' = data_flow_except(dfExc)
    /\ dfStack' = SubSeq(dfStack, 1, Len(dfStack) - 1)
    /\ UNCHANGED <<parserOutcome, astParent, dfVisited, alarmFired, benchmarks, pdgRet,
                   pdgPc, pageRows, pageEvents>>
    /\ UNCHANGED <<fltVars, ipVars, poolVars, rsVars, jsVars>>

\* build_pdg.py:164-167
PdgTimeout ==
    /\ pdgPc = "df"
    /\ dfExc = "Timeout"
    /\ Len(dfStack) = 1
    /\ benchmarks' = [benchmarks EXCEPT !.errors = Append(@, "pdg-timeout")]
    /\ pdgRet' = EmptyNode("Program")
    /\ dfExc' = "none"
    /\ pdgPc' = "returned"
    /\ UNCHANGED <<parserOutcome, astParent, dfStack, dfVisited, alarmFired, pageRows,
                   pageEvents>>
    /\ UNCHANGED <<fltVars, ipVars, poolVars, rsVars, jsVars>>

\* build_pdg.py:160-161, 174-203: df_scoping has returned; signal.alarm(0)
\* and the PDG is returned
PdgReturn ==
    /\ pdgPc = "df"
    /\ dfExc = "none"
    /\ Len(dfStack) = 1
    /\ Unvisited = {}
    /\ pdgRet' = [kind |-> "node", name |-> "Program",
                  children |-> ChildrenOf(astParent, 1)]
    /\ alarmFired' = alarmFired
    /\ pdgPc' = "returned"
    /\ UNCHANGED <<parserOutcome, astParent, dfStack, dfVisited, dfExc, benchmarks,
                   pageRows, pageEvents>>
    /\ UNCHANGED <<fltVars, ipVars, poolVars, rsVars, jsVars>>

\* wxjs.py:19-35: the page methods found below the children of r; in the
\* pages of this model every top-level statement is a Page(...) call whose
\* method holds one flow and one event
find_page_methods_node(r) ==
    [rows |-> Len(r.children), events |-> Len(r.children)]

\* taintmini.py:48-54: gen_pdg has returned r and handle_wxjs(r) runs; when
\* gen_pdg raised, analyze_worker ends with that exception
HandleWxjs ==
    /\ pdgPc = "returned"
    /\ IF pdgRet.kind = "raised"
       THEN /\ pdgPc' = "worker_failed"
            /\ UNCHANGED <<pageRows, pageEvents>>
       ELSE /\ pdgPc' = "analysed"
            /\ pageRows' = find_page_methods_node(pdgRet).rows
            /\ pageEvents' = find_page_methods_node(pdgRet).events
    /\ UNCHANGED <<parserOutcome, astParent, dfStack, dfVisited, dfExc, alarmFired,
                   benchmarks, pdgRet>>
    /\ UNCHANGED <<fltVars, ipVars, poolVars, rsVars, jsVars>>

PdgInit ==
    /\ parserOutcome \in {"ok", "nonzero_exit", "unreachable"}
    /\ astParent \in AstShapes
    /\ dfStack = <<>>
    /\ dfVisited = {}
    /\ dfExc = "none"
    /\ alarmFired = FALSE
    /\ benchmarks = [hasErrors |-> FALSE, errors |-> <<>>]
    /\ pdgRet = NoReturn
    /\ pdgPc = "parse"
    /\ pageRows = 0
    /\ pageEvents = 0
    /\ FilterIdle
    /\ InterPageIdle
    /\ PoolIdle
    /\ ResolverIdle
    /\ JsIdle

PdgNext ==
    \/ Parse
    \/ DfCall
    \/ DfReturn
    \/ DfRaise
    \/ Alarm
    \/ DfExcept
    \/ PdgTimeout
    \/ PdgReturn
    \/ HandleWxjs

SpecPdg == PdgInit /\ [][PdgNext]_vars

C10_ParserFailureGivesEmptyProgram ==
    (parserOutcome \in {"nonzero_exit", "unreachable"} /\ pdgPc # "parse") =>
        /\ pdgRet = [kind |-> "node", name |-> "Program", children |-> <<>>]
        /\ pdgPc # "worker_failed"
        /\ pageRows = 0
        /\ pageEvents = 0

(***************************************************************************)
(* SpecResolver: one page script from its AST to its result rows.          *)
(*   pdg_js/build_ast.py     ast_to_ast_nodes, create_node                 *)
(*   pdg_js/control_flow.py  control_flow                                  *)
(*   pdg_js/data_flow.py     df_scoping and the handlers it dispatches to  *)
(*   taint_mini/wxjs.py      handle_wxjs, dfs_search, the source and sink  *)
(*                           resolution                                    *)
(* A node is named by its path from the Program node: the sequence of      *)
(* child positions.  The AST is the nested value esprima's JSON gives.     *)
(***************************************************************************)

\* ---- nodes as create_node builds them (build_ast.py:150-187)
NoAttributes == [k \in {} |-> ""]

Nd(name, cls, body, attributes, children) ==
    [name |-> name, cls |-> cls, body |-> body, attributes |-> attributes,
     children |-> children]

Identifier(body, name) == Nd("Identifier", "Identifier", body, [name |-> name], <<>>)

Literal(body, value) == Nd("Literal", "ValueExpr", body, [value |-> value], <<>>)

\* a.b.c is MemberExpression(MemberExpression(a, b), c); path has >= 2 names
RECURSIVE MemberExpression(_, _)
MemberExpression(body, path) ==
    Nd("MemberExpression", "Node", body, [computed |-> FALSE],
       << IF Len(path) = 2
          THEN Identifier("object", path[1])
          ELSE MemberExpression("object", SubSeq(path, 1, Len(path) - 1)),
          Identifier("property", path[Len(path)]) >>)

\* f(args) or a.b(args): the callee is the first child, the arguments follow
CallExpression(body, path, arguments) ==
    Nd("CallExpression", "ValueExpr", body, NoAttributes,
       << IF Len(path) = 1 THEN Identifier("callee", path[1])
                           ELSE MemberExpression("callee", path) >> \o arguments)

\* attributes["value"] is esprima's value object; its "type" is what is read
Property(key, value) ==
    Nd("Property", "Node", "properties", [value |-> [type |-> value.name]],
       << Identifier("key", key), value >>)

ObjectExpression(body, properties) ==
    Nd("ObjectExpression", "ValueExpr", body, NoAttributes, properties)

\* an anonymous function: `id` is null, so its children are params and body
FunctionExpression(params, statements) ==
    Nd("FunctionExpression", "FunctionExpression", "value", NoAttributes,
       [i \in 1..Len(params) |-> Identifier("params", params[i])]
       \o << Nd("BlockStatement", "Statement", "body", NoAttributes, statements) >>)

VariableDeclaration(kind, name, init) ==
    Nd("VariableDeclaration", "Statement", "body", [kind |-> kind],
       << Nd("VariableDeclarator", "Node", "declarations", NoAttributes,
             << Identifier("id", name), init >>) >>)

ExpressionStatement(expression) ==
    Nd("ExpressionStatement", "Statement", "body", NoAttributes, << expression >>)

Program(statements) == Nd("Program", "Node", "", NoAttributes, statements)

\* ---- the page scripts analysed
\*   Page({ onLoad(e) { <kind> v = S("key"); K(<arguments using v>) } })
DeclarationKinds == {"var", "let", "const"}

SourceApis == { <<"wx", "getStorageSync">>, <<"wx", "getLocation">>, <<"getApp">> }

SinkApis == { <<"wx", "request">>, <<"channel", "emit">>, <<"app", "bus", "emit">>,
              <<"emit">>, <<"wx", "getStorageSync">> }

ArgumentShapes == {"direct", "object", "event", "twice"}

Programs ==
    [kind : DeclarationKinds, S : SourceApis, K : SinkApis, shape : ArgumentShapes]

ArgumentsUsing(shape, v) ==
    CASE shape = "direct" -> << Identifier("arguments", v) >>
      [] shape = "object" ->
           << ObjectExpression("arguments", << Property("url", Identifier("value", v)) >>) >>
      [] shape = "event" -> << Literal("arguments", "msg"), Identifier("arguments", v) >>
      [] shape = "twice" ->
           << ObjectExpression("arguments", << Property("url", Identifier("value", v)),
                                               Property("data", Identifier("value", v)) >>) >>

PageScript(prog) ==
    Program(<< ExpressionStatement(
        CallExpression("expression", << "Page" >>,
          << ObjectExpression("arguments",
               << Property("onLoad",
                    FunctionExpression(<< "e" >>,
                      << VariableDeclaration(prog.kind, "v",
                           CallExpression("init", prog.S,
                                          << Literal("arguments", "key") >>)),
                         ExpressionStatement(
                           CallExpression("expression", prog.K,
                                          ArgumentsUsing(prog.shape, "v"))) >>)) >>) >>)) >>)

\* ---- navigation in the tree (node.py: children, parent)
RECURSIVE Sub(_, _)
Sub(n, p) == IF p = <<>> THEN n ELSE Sub(n.children[Head(p)], Tail(p))

NodeAt(p) == Sub(ast, p)

ParentOf(p) == SubSeq(p, 1, Len(p) - 1)

ChildPaths(p) == [i \in 1..Len(NodeAt(p).children) |-> Append(p, i)]

NameOf(p) == NodeAt(p).attributes.name

\* ---- control_flow (control_flow.py:36-42, 173-197): under a node of
\* node.EPSILON a Statement child hangs by a control dependency labelled 'e'
\* and any other child by a statement dependency; under any other node every
\* child hangs by a statement dependency.  The scripts have no conditional.
EPSILON ==
    {"BlockStatement", "DebuggerStatement", "EmptyStatement", "ExpressionStatement",
     "LabeledStatement", "ReturnStatement", "ThrowStatement", "WithStatement", "CatchClause",
     "VariableDeclaration", "FunctionDeclaration", "ClassDeclaration"}

statement_dep_children(p) ==
    IF NodeAt(p).name \in EPSILON
    THEN SelectSeq(ChildPaths(p), LAMBDA c : NodeAt(c).cls # "Statement")
    ELSE ChildPaths(p)

control_dep_children(p) ==
    IF NodeAt(p).name \in EPSILON
    THEN SelectSeq(ChildPaths(p), LAMBDA c : NodeAt(c).cls = "Statement")
    ELSE <<>>

\* ---- data_flow.py: the state the handlers thread through their calls is
\* the list of scopes, id_list and the data dependencies drawn so far
Scope(name, of) ==
    [name |-> name, of |-> of, var_list |-> <<>>, unknown_var |-> {}, bloc |-> FALSE]

GLOBAL_VAR == {"window", "this", "self", "top", "global", "that"}

\* the identifiers of js_reserved.KNOWN_WORDS_LOWER the scripts could name
KnownWords == {"onLoad", "name", "location", "window", "self", "top"}

Last(s) == s[Len(s)]

Pop(s) == SubSeq(s, 1, Len(s) - 1)

\* Scope.get_pos_identifier (scope.py:91-102): first position, 0 for None
ScopePos(scope, name) ==
    LET I == {i \in 1..Len(scope.var_list) : NameOf(scope.var_list[i]) = name}
    IN IF I = {} THEN 0 ELSE CHOOSE i \in I : \A j \in I : i <= j

\* the scopes lo..hi are searched from the last one; 0 stands for None
get_pos_identifier(p, scopes, lo, hi) ==
    LET J == {j \in lo..hi : ScopePos(scopes[j], NameOf(p)) # 0}
    IN IF J = {} THEN [var_index |-> 0, scope_index |-> 0]
       ELSE LET j == CHOOSE k \in J : \A m \in J : m <= k
            IN [var_index |-> ScopePos(scopes[j], NameOf(p)), scope_index |-> j]

\* Identifier.set_data_dependency (node.py:361-367): no duplicate edge
set_data_dependency(deps, begin, extremity) ==
    IF \E i \in 1..Len(deps) : deps[i] = << begin, extremity >>
    THEN deps ELSE Append(deps, << begin, extremity >>)

\* set_df and set_data_dep: no variable of these scripts holds a function
set_df(st, scope_index, var_index, p) ==
    [st EXCEPT !.deps =
        set_data_dependency(@, st.scopes[scope_index].var_list[var_index], p)]

\* every identifier is unknown: no data dependency is ever drawn
assignment_df_unknown(p, st, update) ==
    [st EXCEPT !.scopes[1].unknown_var = @ \cup {p}]

assignment_df(p, st, update) ==
    LET pos == get_pos_identifier(p, st.scopes, 1, Len(st.scopes))
    IN IF pos.var_index # 0
       THEN LET drawn == set_df(st, pos.scope_index, pos.var_index, p)
            IN IF update
               THEN [drawn EXCEPT !.scopes[pos.scope_index].var_list[pos.var_index] = p]
               ELSE drawn
       ELSE IF NameOf(p) \notin KnownWords
            THEN [st EXCEPT !.scopes[1].unknown_var = @ \cup {p}]
            ELSE st

\* var_decl_df with assignt = False: a declaration, not an assignment
var_decl_df(p, st, entry, let_const) ==
    LET n == Len(st.scopes)
        own == let_const \/ Last(st.scopes).name = "let_const"
        global == ~own /\ (n = 1 \/ entry = 1)
        lo == IF own THEN n ELSE IF global THEN 1 ELSE 2
        hi == IF global THEN 1 ELSE n
        pos == get_pos_identifier(p, st.scopes, lo, hi)
    IN IF pos.var_index = 0
       THEN [st EXCEPT !.scopes[hi].var_list = Append(@, p)]
       ELSE [st EXCEPT !.scopes[pos.scope_index].var_list[pos.var_index] = p]

\* search_identifiers on an Identifier node: is it a variable of its own
IsGlobalVar(n) == n.name = "Identifier" /\ n.attributes.name \in GLOBAL_VAR

search_identifiers(p) ==
    LET n == NodeAt(p)
        parent == NodeAt(ParentOf(p))
    IN IF n.name # "Identifier" THEN <<>>
       ELSE IF parent.name # "MemberExpression" THEN << p >>
       ELSE IF p = Append(ParentOf(p), 1)
            THEN IF IsGlobalVar(n) THEN <<>> ELSE << p >>
       ELSE IF parent.children[1].name = "ThisExpression" \/ IsGlobalVar(parent.children[1])
            THEN IF IsGlobalVar(n) THEN <<>> ELSE << p >>
       ELSE IF parent.attributes.computed THEN << p >> ELSE <<>>

RECURSIVE TopMember(_)
TopMember(p) ==
    IF NodeAt(ParentOf(p)).name = "MemberExpression" THEN TopMember(ParentOf(p)) ELSE p

RECURSIVE identifier_update_each(_, _)
identifier_update_each(ids, st) ==
    IF ids = <<>> THEN st
    ELSE LET check_callee == TopMember(Head(ids))
             update == /\ NodeAt(check_callee).name = "MemberExpression"
                       /\ NodeAt(check_callee).body = "callee"
         IN identifier_update_each(Tail(ids), assignment_df(Head(ids), st, update))

identifier_update(p, st) == identifier_update_each(search_identifiers(p), st)

\* hoisting: a name that was unknown so far now depends on this node
RECURSIVE hoisting_each(_, _, _)
hoisting_each(p, unknowns, deps) ==
    IF unknowns = <<>> THEN deps
    ELSE hoisting_each(p, Tail(unknowns), set_data_dependency(deps, p, Head(unknowns)))

hoisting(p, st) ==
    LET same(j) == {u \in st.scopes[j].unknown_var : NameOf(u) = NameOf(p)}
        hit == Concat([j \in 1..Len(st.scopes) |-> SetToSeq(same(j))])
    IN [st EXCEPT !.deps = hoisting_each(p, hit, @),
                  !.scopes = [j \in 1..Len(st.scopes) |->
                                [st.scopes[j] EXCEPT !.unknown_var = @ \ same(j)]]]

\* let_const_scope: leaving the block that opened a let/const scope
let_const_scope(p, st) ==
    IF /\ Len(st.scopes) > 1
       /\ Last(st.scopes).name = "let_const"
       /\ Last(st.scopes).of = p
    THEN [st EXCEPT !.scopes = Pop(@)] ELSE st

go_out_bloc(st, already_in_bloc) ==
    LET B == {j \in 1..Len(st.scopes) : st.scopes[j].bloc}
    IN IF already_in_bloc \/ B = {} THEN st
       ELSE LET j == CHOOSE k \in B : \A m \in B : m <= k
            IN [st EXCEPT !.scopes[j].bloc = FALSE]

\* data_flow (data_flow.py:1166-1186) is build_dfg_content inside a try; the
\* handlers below raise nothing on these scripts
RECURSIVE data_flow(_, _, _)

\* `for child in ...: scopes = data_flow(child, ...)`: the scopes a child
\* leaves are known before the next child is handled
RECURSIVE data_flow_each(_, _, _)
data_flow_each(ps, st, entry) ==
    IF ps = <<>> THEN st
    ELSE LET scopes == data_flow(Head(ps), st, entry)
         IN IF DOMAIN scopes = DOMAIN st
            THEN data_flow_each(Tail(ps), scopes, entry)
            ELSE scopes

df_scoping(p, st, entry) == data_flow_each(ChildPaths(p), st, entry)

\* var_declaration_df on a VariableDeclarator whose id is an Identifier;
\* map_var2value computes values and draws no dependency
RECURSIVE var_decl_df_each(_, _, _, _)
var_decl_df_each(ids, st, entry, let_const) ==
    IF ids = <<>> THEN st
    ELSE var_decl_df_each(Tail(ids),
            var_decl_df(Head(ids), [st EXCEPT !.id_list = @ \cup {Head(ids)}],
                        entry, let_const),
            entry, let_const)

var_declaration_df(p, st, entry, let_const) ==
    IF NodeAt(p).name # "VariableDeclarator" THEN st
    ELSE LET identifiers == search_identifiers(Append(p, 1))
             declared == var_decl_df_each(identifiers, st, entry, let_const)
         IN IF Len(NodeAt(p).children) > 1
            THEN data_flow(Append(p, 2), declared, entry)
            ELSE declared

RECURSIVE var_declaration_df_each(_, _, _, _)
var_declaration_df_each(ps, st, entry, let_const) ==
    IF ps = <<>> THEN st
    ELSE LET scopes == var_declaration_df(Head(ps), st, entry, let_const)
         IN IF DOMAIN scopes = DOMAIN st
            THEN var_declaration_df_each(Tail(ps), scopes, entry, let_const)
            ELSE scopes

\* function_scope on a function expression without a name, first traversal
RECURSIVE function_scope_each(_, _)
function_scope_each(ps, st) ==
    IF ps = <<>> THEN st
    ELSE LET child == Head(ps)
             next == IF NodeAt(child).body = "params"
                     THEN IF NodeAt(child).name = "Identifier"
                          THEN [st EXCEPT !.id_list = @ \cup {child},
                                          !.scopes[Len(st.scopes)].var_list =
                                              Append(@, child)]
                          ELSE data_flow(child, [st EXCEPT !.id_list = @ \cup {child}], 0)
                     ELSE data_flow(child, st, 0)
         IN IF DOMAIN next = DOMAIN st THEN function_scope_each(Tail(ps), next) ELSE next

function_scope(p, st) ==
    LET pushed == [st EXCEPT !.scopes = Append(@, Scope("Function", p))]
        walked == let_const_scope(p, function_scope_each(ChildPaths(p), pushed))
    IN [walked EXCEPT !.scopes = Pop(@)]

\* obj_expr_scope: the keys are hoisted, the values are analysed
RECURSIVE obj_expr_scope_each(_, _)
obj_expr_scope_each(ps, st) ==
    IF ps = <<>> THEN st
    ELSE LET child == Head(ps)
             next == IF NodeAt(child).body = "key"
                     THEN LET ids == search_identifiers(child)
                          IN IF ids = <<>> THEN st
                             ELSE hoisting(child, [st EXCEPT !.id_list = @ \cup {child}])
                     ELSE data_flow(child, st, 0)
         IN IF DOMAIN next = DOMAIN st THEN obj_expr_scope_each(Tail(ps), next) ELSE next

obj_expr_scope(p, st) ==
    LET pushed == [st EXCEPT !.scopes = Append(@, Scope("ObjectExpression", p))]
        inner == Concat([i \in 1..Len(NodeAt(p).children) |-> ChildPaths(Append(p, i))])
        walked == let_const_scope(p, obj_expr_scope_each(inner, pushed))
    IN [walked EXCEPT !.scopes = Pop(@)]

\* statement_scope: statement dependencies first, then the epsilon control
\* dependencies; no branch is left to handle_several_branches
statement_scope(p, st, entry) ==
    let_const_scope(p,
        data_flow_each(control_dep_children(p),
            data_flow_each(statement_dep_children(p), st, entry), entry))

\* build_dfg_content (data_flow.py:932-1163), its branches in their order
build_dfg_content(p, st, entry) ==
    LET n == NodeAt(p)
        top == Len(st.scopes)
    IN CASE n.name = "VariableDeclaration" ->
              LET let_const == n.attributes.kind # "var" /\ st.scopes[top].bloc
                  opened == IF /\ let_const
                               /\ ~(/\ st.scopes[top].name = "let_const"
                                    /\ st.scopes[top].of = ParentOf(p))
                            THEN [st EXCEPT !.scopes =
                                     Append(@, Scope("let_const", ParentOf(p)))]
                            ELSE st
              IN var_declaration_df_each(ChildPaths(p), opened, entry, let_const)
         [] n.name = "CallExpression" ->
              \* the callee is no function defined in the script: nothing to map
              df_scoping(p, st, 0)
         [] n.cls = "FunctionExpression" -> function_scope(p, st)
         [] n.cls = "Statement" /\ n.name # "VariableDeclaration" ->
              go_out_bloc(statement_scope(p, [st EXCEPT !.scopes[top].bloc = TRUE], entry),
                          st.scopes[top].bloc)
         [] n.name = "ObjectExpression" -> obj_expr_scope(p, st)
         [] n.name = "Identifier" ->
              IF p \in st.id_list THEN st ELSE identifier_update(p, st)
         [] OTHER -> df_scoping(p, st, 0)

data_flow(p, st, entry) == build_dfg_content(p, st, entry)

\* get_data_flow (build_pdg.py:147-151): df_scoping from the Program node
\* with one Global scope, an empty id_list and entry = 1
DataDependencies ==
    df_scoping(<<>>, [scopes |-> << Scope("Global", <<>>) >>, id_list |-> {},
                      deps |-> <<>>], 1).deps

\* ---- taint_mini/wxjs.py
\* Identifier.data_dep_parents and data_dep_children, in drawing order
data_dep_parents(p) ==
    LET E == SelectSeq(data_dep, LAMBDA e : e[2] = p)
    IN [i \in 1..Len(E) |-> E[i][1]]

data_dep_children(p) ==
    LET E == SelectSeq(data_dep, LAMBDA e : e[1] = p)
    IN [i \in 1..Len(E) |-> E[i][2]]

\* "a.b.c" from <<"a", "b", "c">>
RECURSIVE Join(_)
Join(names) ==
    IF names = <<>> THEN ""
    ELSE IF Len(names) = 1 THEN names[1]
    ELSE names[1] \o "." \o Join(Tail(names))

\* str.endswith over the callee paths of the scripts: the suffix has no dot,
\* so it is the last name of the path that ends with it
NamesEndingWith(suffix) ==
    CASE suffix = "on" -> {"on", "getLocation"}
      [] suffix = "emit" -> {"emit"}

endswith(s, suffix) ==
    \E path \in SourceApis \cup SinkApis :
        s = Join(path) /\ Last(path) \in NamesEndingWith(suffix)

\* every identifier of a page method lies in the argument of Page(...), so
\* the walk up ends at a CallExpression before it leaves the tree
RECURSIVE find_nearest_call_expr_node(_)
find_nearest_call_expr_node(p) ==
    IF NodeAt(p).cls = "ValueExpr" /\ NodeAt(p).name = "CallExpression" THEN p
    ELSE find_nearest_call_expr_node(ParentOf(p))

NoNode == << 0 >>

RECURSIVE find_success_property_function_expr_node(_)
find_success_property_function_expr_node(p) ==
    LET n == NodeAt(p)
    IN IF /\ n.name = "Property"
          /\ Len(n.children) = 2
          /\ n.children[1].cls = "Identifier"
          /\ "name" \in DOMAIN n.children[1].attributes
          /\ n.children[1].attributes.name = "success"
       THEN p
       ELSE IF p = <<>> THEN NoNode
       ELSE find_success_property_function_expr_node(ParentOf(p))

RECURSIVE traverse(_)
traverse(n) ==
    Concat([i \in 1..Len(n.children) |->
        LET c == n.children[i]
        IN IF c.name = "ThisExpression" THEN << "this" >>
           ELSE (IF c.cls # "Identifier" THEN traverse(c) ELSE <<>>)
                \o (IF "name" \in DOMAIN c.attributes
                    THEN << c.attributes.name >> ELSE <<>>)])

obtain_callee_from_member_expr(p) ==
    IF NodeAt(p).name # "MemberExpression" THEN None
    ELSE IF traverse(NodeAt(p)) = <<>> THEN None
    ELSE Join(traverse(NodeAt(p)))

obtain_callee_from_call_expr(p) ==
    LET callee == NodeAt(p).children[1]
    IN IF Len(callee.children) = 0 /\ callee.attributes.name # "Page"
       THEN callee.attributes.name
       ELSE IF callee.name = "MemberExpression"
       THEN obtain_callee_from_member_expr(Append(p, 1))
       ELSE Join([i \in 1..Len(callee.children) |->
                    IF "name" \in DOMAIN callee.children[i].attributes
                    THEN callee.children[i].attributes.name ELSE ""])

obtain_var_decl_callee(p) ==
    IF Len(NodeAt(p).children) = 0 THEN ""
    ELSE Join([i \in 1..Len(NodeAt(p).children[1].children) |->
                 NodeAt(p).children[1].children[i].attributes.name])

is_parent_var_decl_or_assign_expr(p) ==
    NodeAt(ParentOf(p)).name \in {"VariableDeclarator", "AssignmentExpression"}

check_immediate_data_dep_parent(p) ==
    LET parent == NodeAt(ParentOf(p))
    IN IF /\ is_parent_var_decl_or_assign_expr(p)
          /\ Len(parent.children) > 1
          /\ parent.children[2].cls = "ValueExpr"
       THEN LET called == IF parent.children[2].name = "CallExpression"
                          THEN obtain_callee_from_call_expr(Append(ParentOf(p), 2))
                          ELSE None
            IN [source |-> IF called = None
                           THEN obtain_var_decl_callee(Append(ParentOf(p), 2))
                           ELSE called,
                source_call_expr |-> Append(ParentOf(p), 2)]
       ELSE [source |-> None, source_call_expr |-> NoNode]

\* handle_data_dep_parents.  The last resort, the provenance parents that
\* pointer analysis attaches, yields nothing for an identifier the scripts
\* declare: such an identifier has its source found by the first check
handle_data_dep_parents(p) ==
    LET immediate == check_immediate_data_dep_parent(p)
        source_call_expr == find_nearest_call_expr_node(p)
        source == obtain_callee_from_call_expr(source_call_expr)
    IN IF immediate.source # None THEN { immediate }
       ELSE IF source # None /\ source # ""
       THEN { [source |-> source, source_call_expr |-> source_call_expr] }
       ELSE {}

\* resolve_event_emitter.  children[0] of a callee without children raises
\* IndexError; provenance_parents_set belongs to node.Value, so a first child
\* of class Node raises AttributeError; otherwise the first child has no
\* provenance parent here: the names the scripts call through are declared
\* nowhere
resolve_event_emitter(call_expr) ==
    LET success == find_success_property_function_expr_node(call_expr)
    IN IF success # NoNode
       THEN [raised |-> "none",
             emitter |-> obtain_callee_from_call_expr(find_nearest_call_expr_node(success))]
       ELSE IF Len(NodeAt(call_expr).children[1].children) = 0
       THEN [raised |-> "IndexError", emitter |-> None]
       ELSE IF NodeAt(call_expr).children[1].children[1].cls = "Node"
       THEN [raised |-> "AttributeError", emitter |-> None]
       ELSE [raised |-> "none", emitter |-> None]

\* handle_event_call_expr: the events list afterwards, or the exception
handle_event_call_expr(call_expr, method, event_type, sources, sink, evts) ==
    LET n == NodeAt(call_expr)
        resolved == resolve_event_emitter(call_expr)
    IN IF Len(n.children) # 3 THEN [raised |-> "none", events |-> evts]
       ELSE IF n.children[2].name # "Literal" THEN [raised |-> "none", events |-> evts]
       ELSE IF resolved.raised # "none" THEN [raised |-> resolved.raised, events |-> evts]
       ELSE IF resolved.emitter = None THEN [raised |-> "none", events |-> evts]
       ELSE [raised |-> "none",
             events |-> Append(evts,
                 [method_name |-> method, event_type |-> event_type,
                  event_name |-> n.children[2].attributes.value,
                  event_call_expr |-> call_expr, event_data_source |-> sources,
                  event_data_sink |-> sink, event_emitter |-> resolved.emitter])]

EventTypeOf(name) ==
    IF endswith(name, "on") THEN "on" ELSE IF endswith(name, "emit") THEN "emit" ELSE None

\* the loop over the sources of handle_data_child_node (wxjs.py:353-371);
\* acc is the lists so far, or the exception that left the loop
RECURSIVE record_each(_, _, _, _, _)
record_each(sources, sink, p, method, acc) ==
    IF sources = <<>> \/ acc.raised # "none" THEN acc
    ELSE LET source == Head(sources)
             type == EventTypeOf(source.source)
             event == IF type = None THEN [raised |-> "none", events |-> acc.events]
                      ELSE handle_event_call_expr(source.source_call_expr, method, type,
                                                  NoSources, sink, acc.events)
             row == [method |-> method, ident |-> NameOf(p),
                     source |-> source.source, sink |-> sink]
         IN record_each(Tail(sources), sink, p, method,
               IF source.source = sink THEN acc
               ELSE IF event.raised = "AttributeError"
               THEN [acc EXCEPT !.results = Append(@, row)]
               ELSE IF event.raised # "none"
               THEN [acc EXCEPT !.raised = event.raised]
               ELSE [raised |-> "none", results |-> Append(acc.results, row),
                     events |-> event.events])

handle_data_child_node(p, method, acc) ==
    LET sink_call_expr == find_nearest_call_expr_node(p)
        sink == obtain_callee_from_call_expr(sink_call_expr)
        parents == data_dep_parents(p)
        sources == UNION {handle_data_dep_parents(parents[i]) : i \in 1..Len(parents)}
        type == EventTypeOf(sink)
        event == IF type = None THEN [raised |-> "none", events |-> acc.events]
                 ELSE handle_event_call_expr(sink_call_expr, method, type,
                                             {s.source : s \in sources}, None, acc.events)
    IN IF Len(data_dep_children(p)) > 0 THEN acc
       ELSE IF sink = "" THEN acc
       ELSE IF sources = {} THEN acc
       ELSE IF event.raised \notin {"none", "AttributeError"}
       THEN [acc EXCEPT !.raised = event.raised]
       ELSE record_each(SetToSeq(sources), sink, p, method,
                        [acc EXCEPT !.events = event.events])

handle_identifier_node(p, method, acc) ==
    IF Len(data_dep_parents(p)) > 0 THEN handle_data_child_node(p, method, acc) ELSE acc

dfs_visit(p, method, acc) ==
    IF NodeAt(p).cls # "Identifier" THEN acc ELSE handle_identifier_node(p, method, acc)

\* the method nodes find_page_methods_node searches (wxjs.py:20-29)
PageMethodNodes ==
    LET pages == SelectSeq(ChildPaths(<<>>), LAMBDA c :
                    /\ NodeAt(c).name = "ExpressionStatement"
                    /\ Len(NodeAt(c).children) > 0
                    /\ NodeAt(c).children[1].name = "CallExpression"
                    /\ NodeAt(c).children[1].children[1].attributes.name = "Page")
    IN Concat([i \in 1..Len(pages) |->
          SelectSeq(ChildPaths(pages[i] \o << 1, 2 >>), LAMBDA m :
              NodeAt(m).attributes.value.type = "FunctionExpression")])

Reverse(s) == [i \in 1..Len(s) |-> s[Len(s) + 1 - i]]

\* get_data_flow on the parsed script: the PDG is the AST with its data
\* dependencies drawn
GetDataFlow ==
    /\ rsPc = "ast"
    /\ data_dep' = DataDependencies
    /\ rsPc' = "pdg"
    /\ UNCHANGED <<program, ast, methods, method_name, stack, visited, rsResults, rsEvents,
                   method_errors>>
    /\ UNCHANGED <<runs, previous>>
    /\ UNCHANGED <<fltVars, ipVars, poolVars, pdgVars, jsVars>>

\* handle_wxjs that appends to the lists of the run before
ResolverHandleWxjsAccumulating ==
    /\ rsPc = "pdg" \/ (rsPc = "done" /\ runs < MaxRuns)
    /\ previous' = [results |-> rsResults, events |-> rsEvents, data_dep |-> data_dep]
    /\ methods' = PageMethodNodes
    /\ method_errors' = <<>>
    /\ rsPc' = "methods"
    /\ UNCHANGED <<program, ast, data_dep, method_name, stack, visited, rsResults,
                   rsEvents, runs>>
    /\ UNCHANGED <<fltVars, ipVars, poolVars, pdgVars, jsVars>>

\* handle_wxjs (wxjs.py:11-16): fresh lists for the page, then the methods;
\* it may be called again on the same PDG once it has returned
ResolverHandleWxjs ==
    /\ rsPc = "pdg" \/ (rsPc = "done" /\ runs < MaxRuns)
    /\ previous' = [results |-> rsResults, events |-> rsEvents, data_dep |-> data_dep]
    /\ rsResults' = <<>>
    /\ rsEvents' = <<>>
    /\ methods' = PageMethodNodes
    /\ method_errors' = <<>>
    /\ rsPc' = "methods"
    /\ UNCHANGED <<program, ast, data_dep, method_name, stack, visited, runs>>
    /\ UNCHANGED <<fltVars, ipVars, poolVars, pdgVars, jsVars>>

\* the next method of find_page_methods_node: dfs_search starts (394-398)
DfsSearchBegin ==
    /\ rsPc = "methods"
    /\ methods # <<>>
    /\ method_name' = NodeAt(Head(methods)).children[1].attributes.name
    /\ stack' = << Head(methods) >>
    /\ visited' = <<>>
    /\ methods' = Tail(methods)
    /\ rsPc' = "dfs"
    /\ UNCHANGED <<program, ast, data_dep, rsResults, rsEvents, method_errors>>
    /\ UNCHANGED <<runs, previous>>
    /\ UNCHANGED <<fltVars, ipVars, poolVars, pdgVars, jsVars>>

\* one turn of the while loop of dfs_search (400-413); an exception leaves
\* dfs_search and is caught by find_page_methods_node (32-35)
DfsSearchStep ==
    /\ rsPc = "dfs"
    /\ stack # <<>>
    /\ LET v == Last(stack)
           seen == \E i \in 1..Len(visited) : visited[i] = v
           out == dfs_visit(v, method_name,
                            [raised |-> "none", results |-> rsResults, events |-> rsEvents])
           now == Append(visited, v)
           fresh == SelectSeq(Reverse(ChildPaths(v)),
                              LAMBDA c : \A i \in 1..Len(now) : now[i] # c)
       IN IF seen
          THEN /\ stack' = Pop(stack)
               /\ UNCHANGED <<visited, rsResults, rsEvents, method_errors, rsPc>>
          ELSE /\ visited' = now
               /\ rsResults' = out.results
               /\ rsEvents' = out.events
               /\ IF out.raised # "none"
                  THEN /\ method_errors' = Append(method_errors, method_name)
                       /\ stack' = <<>>
                       /\ rsPc' = "methods"
                  ELSE /\ stack' = Pop(stack) \o fresh
                       /\ UNCHANGED <<method_errors, rsPc>>
    /\ UNCHANGED <<program, ast, data_dep, methods, method_name>>
    /\ UNCHANGED <<runs, previous>>
    /\ UNCHANGED <<fltVars, ipVars, poolVars, pdgVars, jsVars>>

\* the stack is empty: dfs_search returns
DfsSearchEnd ==
    /\ rsPc = "dfs"
    /\ stack = <<>>
    /\ rsPc' = "methods"
    /\ UNCHANGED <<program, ast, data_dep, methods, method_name, stack, visited, rsResults,
                   rsEvents, method_errors>>
    /\ UNCHANGED <<runs, previous>>
    /\ UNCHANGED <<fltVars, ipVars, poolVars, pdgVars, jsVars>>

\* no method is left: find_page_methods_node and handle_wxjs return
ResolverReturn ==
    /\ rsPc = "methods"
    /\ methods = <<>>
    /\ rsPc' = "done"
    /\ runs' = runs + 1
    /\ UNCHANGED <<program, ast, data_dep, methods, method_name, stack, visited, rsResults,
                   rsEvents, method_errors, previous>>
    /\ UNCHANGED <<fltVars, ipVars, poolVars, pdgVars, jsVars>>

ResolverInit ==
    /\ program \in Programs
    /\ ast = PageScript(program)
    /\ data_dep = <<>>
    /\ rsPc = "ast"
    /\ methods = <<>>
    /\ method_name = None
    /\ stack = <<>>
    /\ visited = <<>>
    /\ rsResults = <<>>
    /\ rsEvents = <<>>
    /\ method_errors = <<>>
    /\ runs = 0
    /\ previous = [results |-> <<>>, events |-> <<>>, data_dep |-> <<>>]
    /\ FilterIdle
    /\ InterPageIdle
    /\ PoolIdle
    /\ PdgIdle
    /\ JsIdle

ResolverNext ==
    \/ GetDataFlow
    \/ ResolverHandleWxjs
    \/ DfsSearchBegin
    \/ DfsSearchStep
    \/ DfsSearchEnd
    \/ ResolverReturn

SpecResolver == ResolverInit /\ [][ResolverNext]_vars

\* ---- C1
\* The row the claim expects of the script.
C1_ExpectedRow ==
    [method |-> "onLoad", ident |-> "v", source |-> Join(program.S),
     sink |-> Join(program.K)]

\* The script is the claim's case: v is declared with a call to S and used
\* once, inside the argument of a call to K reached by a dotted path, S # K.
C1_Case == program.S # program.K /\ Len(program.K) >= 2 /\ program.shape # "twice"

PyNone == [type |-> "NoneType"]
PyInt(n) == [type |-> "int", num |-> n, den |-> 1]
PyBool(t) == [type |-> "bool", num |-> IF t THEN 1 ELSE 0, den |-> 1]
PyStr(s) == [type |-> "str", chars |-> s]

Abs(n) == IF n < 0 THEN -n ELSE n

RECURSIVE Gcd(_, _)
Gcd(m, n) == IF n = 0 THEN m ELSE Gcd(n, m % n)

\* a float of value n/d, d # 0
PyFloat(n, d) ==
    LET g == Gcd(Abs(n), Abs(d))
        s == IF d < 0 THEN -1 ELSE 1
    IN  [type |-> "float", num |-> (s * n) \div g, den |-> (s * d) \div g]

\* isinstance(x, (int, float)): bool is a subclass of int
IsNumber(x) == x.type \in {"int", "bool", "float"}
IsStr(x) == x.type = "str"
HasDot(x) == IsStr(x) /\ \E i \in DOMAIN x.chars : x.chars[i] = "."

\* the type of an arithmetic result, and the result n/d of that type
Arith(a, b, n, d) ==
    IF a.type = "float" \/ b.type = "float"
    THEN PyFloat(n, d)
    ELSE PyInt(n \div d)

Digits == <<"0", "1", "2", "3", "4", "5", "6", "7", "8", "9">>

RECURSIVE NatStr(_)
NatStr(n) == IF n < 10 THEN <<Digits[n + 1]>> ELSE NatStr(n \div 10) \o <<Digits[(n % 10) + 1]>>

IntStr(n) == IF n < 0 THEN <<"-">> \o NatStr(-n) ELSE NatStr(n)

\* str(x); the floats of the model are whole numbers and halves
str(x) ==
    CASE x.type = "NoneType" -> <<"N", "o", "n", "e">>
      [] x.type = "bool" -> IF x.num = 1 THEN <<"T", "r", "u", "e">> ELSE <<"F", "a", "l", "s", "e">>
      [] x.type = "int" -> IntStr(x.num)
      [] x.type = "float" ->
            (IF x.num < 0 THEN <<"-">> ELSE <<>>)
            \o NatStr(Abs(x.num) \div x.den)
            \o (IF x.den = 1 THEN <<".", "0">> ELSE <<".", "5">>)
      [] x.type = "str" -> x.chars

Returned(v) == [kind |-> "return", value |-> v]
Raises(e) == [kind |-> "raise", value |-> e]

operator_plus(a, b) ==
    IF IsStr(a) \/ IsStr(b)
    THEN Returned(PyStr(str(a) \o str(b)))
    ELSE Returned(Arith(a, b, a.num * b.den + b.num * a.den, a.den * b.den))

operator_minus(a, b) ==
    IF IsStr(a) \/ IsStr(b)
    THEN Raises("TypeError")
    ELSE Returned(Arith(a, b, a.num * b.den - b.num * a.den, a.den * b.den))

RECURSIVE Repeat(_, _)
Repeat(s, n) == IF n <= 0 THEN <<>> ELSE s \o Repeat(s, n - 1)

operator_asterisk(a, b) ==
    CASE IsStr(a) /\ b.type \in {"int", "bool"} -> Returned(PyStr(Repeat(a.chars, b.num)))
      [] IsStr(b) /\ a.type \in {"int", "bool"} -> Returned(PyStr(Repeat(b.chars, a.num)))
      [] IsStr(a) \/ IsStr(b) -> Raises("TypeError")
      [] OTHER -> Returned(Arith(a, b, a.num * b.num, a.den * b.den))

\* b == 0 in Python: 0, 0.0 and False are equal to 0, no string is
EqualsZero(b) == IsNumber(b) /\ b.num = 0

operator_slash_unguarded(a, b) ==
    CASE IsStr(a) \/ IsStr(b) -> Raises("TypeError")
      [] EqualsZero(b) -> Raises("ZeroDivisionError")
      [] OTHER -> Returned(PyFloat(a.num * b.den, a.den * b.num))

operator_slash(a, b) ==
    IF EqualsZero(b)
    THEN Returned(PyNone)
    ELSE operator_slash_unguarded(a, b)

\* a % b of two numbers is a - b * floor(a / b); on a string, a is a format
\* without conversion specifier, which takes no argument
operator_modulo(a, b) ==
    CASE IsStr(a) \/ IsStr(b) -> Raises("TypeError")
      [] EqualsZero(b) -> Raises("ZeroDivisionError")
      [] OTHER ->
            LET qn == a.num * b.den * (IF b.num < 0 THEN -1 ELSE 1)
                qd == a.den * Abs(b.num)
                q == qn \div qd
            IN  Returned(Arith(a, b, a.num * b.den - q * b.num * a.den, a.den * b.den))

operator_plus_plus(a) ==
    IF IsStr(a) THEN Raises("TypeError") ELSE Returned(Arith(a, PyInt(1), a.num + a.den, a.den))

operator_minus_minus(a) ==
    IF IsStr(a) THEN Raises("TypeError") ELSE Returned(Arith(a, PyInt(1), a.num - a.den, a.den))

PyEquals(a, b) ==
    CASE IsNumber(a) /\ IsNumber(b) -> a.num * b.den = b.num * a.den
      [] IsStr(a) /\ IsStr(b) -> a.chars = b.chars
      [] OTHER -> FALSE

operator_equal(a, b) == Returned(PyBool(PyEquals(a, b)))

operator_different(a, b) == Returned(PyBool(~PyEquals(a, b)))

Alphabet == <<".", "a", "b">>
Ord(c) == CHOOSE i \in DOMAIN Alphabet : Alphabet[i] = c

RECURSIVE StrLess(_, _)
StrLess(s, t) ==
    CASE t = <<>> -> FALSE
      [] s = <<>> -> TRUE
      [] Ord(Head(s)) # Ord(Head(t)) -> Ord(Head(s)) < Ord(Head(t))
      [] OTHER -> StrLess(Tail(s), Tail(t))

\* a < b; the order of a string and a number is a TypeError
PyLess(a, b) ==
    CASE IsNumber(a) /\ IsNumber(b) -> Returned(PyBool(a.num * b.den < b.num * a.den))
      [] IsStr(a) /\ IsStr(b) -> Returned(PyBool(StrLess(a.chars, b.chars)))
      [] OTHER -> Raises("TypeError")

PyNot(r) == IF r.kind = "return" THEN Returned(PyBool(r.value.num = 0)) ELSE r

operator_bigger_equal(a, b) == PyNot(PyLess(a, b))
operator_bigger(a, b) == PyLess(b, a)
operator_smaller_equal(a, b) == PyNot(PyLess(b, a))
operator_smaller(a, b) == PyLess(a, b)

Truthy(x) ==
    CASE IsNumber(x) -> x.num # 0
      [] IsStr(x) -> x.chars # <<>>
      [] OTHER -> FALSE

operator_and(a, b) == Returned(IF Truthy(a) THEN b ELSE a)
operator_or(a, b) == Returned(IF Truthy(a) THEN a ELSE b)

\* the operators of BinaryExpression and LogicalExpression nodes
BinaryOperators == {"+", "-", "*", "/", "%", "==", "===", "!=", "!==", ">=", ">", "<=", "<",
                    "&&", "||", "&", "in"}
\* the operators of AssignmentExpression nodes other than `=`
AugmentedOperators == {"+=", "-=", "*=", "/=", "%=", "&="}
\* the operators of UpdateExpression nodes
UpdateOperators == {"++", "--"}
\* `**` and `**=` are left out: their results are not fractions
Operators == BinaryOperators \cup AugmentedOperators \cup UpdateOperators

\* the try block of compute_operators
dispatch(operator, a, b) ==
    CASE operator \in {"+=", "+"} -> operator_plus(a, b)
      [] operator \in {"-=", "-"} -> operator_minus(a, b)
      [] operator \in {"*=", "*"} -> operator_asterisk(a, b)
      [] operator \in {"/=", "/"} -> operator_slash(a, b)
      [] operator \in {"%=", "%"} -> operator_modulo(a, b)
      [] operator = "++" -> operator_plus_plus(a)
      [] operator = "--" -> operator_minus_minus(a)
      [] operator \in {"==", "==="} -> operator_equal(a, b)
      [] operator \in {"!=", "!=="} -> operator_different(a, b)
      [] operator = ">=" -> operator_bigger_equal(a, b)
      [] operator = ">" -> operator_bigger(a, b)
      [] operator = "<=" -> operator_smaller_equal(a, b)
      [] operator = "<" -> operator_smaller(a, b)
      [] operator = "&&" -> operator_and(a, b)
      [] operator = "||" -> operator_or(a, b)
      [] OTHER -> Returned(PyNone)

compute_operators(operator, a, b) ==
    LET numbers == IsNumber(a) /\ IsNumber(b)
        r == dispatch(operator, a, b)
    IN  CASE ~numbers /\ operator \in {"+=", "+"} /\ (IsStr(a) \/ IsStr(b)) -> operator_plus(a, b)
          [] ~numbers /\ (a = PyNone \/ b = PyNone) -> Returned(PyNone)
          [] ~numbers /\ (HasDot(a) \/ HasDot(b)) -> Returned(PyNone)
          [] r.kind = "raise" /\ r.value = "TypeError" -> Returned(PyNone)
          [] OTHER -> r

MaxOperand == 2     \* largest integer operand

\* the values an operand evaluates to
Operands ==
    {PyInt(n) : n \in -1..MaxOperand}
    \cup {PyFloat(0, 1), PyFloat(5, 2)}
    \cup {PyBool(TRUE), PyBool(FALSE), PyNone}
    \cup {PyStr(<<>>), PyStr(<<"a">>), PyStr(<<"a", ".", "b">>)}

\* The expression sits in one of
\*     var y = a <op> b, z = y;      a binary or logical operator
\*     x <op>= b, z = x;             an augmented assignment to a declared x
\*     x++, z = x;                   an update of a declared x (b is 0)
\* and opDeclared lists the variables of the scope.
Target(operator) == IF operator \in BinaryOperators THEN "y" ELSE "x"

\* map_var2value or compute_update_expression evaluates the expression
ComputeOperators ==
    /\ opPc = "declared"
    /\ opOut' = compute_operators(opCall.operator, opCall.a, opCall.b)
    /\ opPc' = "computed"
    /\ UNCHANGED <<opCall, opDeclared>>
    /\ UNCHANGED opOthers

\* The value came back: the traversal goes on to `z = ...`.
StatementContinues ==
    /\ opPc = "computed"
    /\ opOut.kind = "return"
    /\ opDeclared' = Append(opDeclared, "z")
    /\ opPc' = "done"
    /\ UNCHANGED <<opCall, opOut>>
    /\ UNCHANGED opOthers

\* An exception left compute_operators: the nearest data_flow call swallows
\* it.  For a declaration that is data_flow(VariableDeclaration), whose loop
\* over the declarators is lost; for an assignment or an update it is the
\* data_flow call on that expression, and the sequence goes on.
StatementExcept ==
    /\ opPc = "computed"
    /\ opOut.kind = "raise"
    /\ opDeclared' = IF opCall.operator \in BinaryOperators
                     THEN opDeclared
                     ELSE Append(opDeclared, "z")
    /\ opPc' = "done"
    /\ UNCHANGED <<opCall, opOut>>
    /\ UNCHANGED opOthers

OperatorsInit ==
    /\ opCall \in [operator : Operators, a : Operands, b : Operands]
    /\ opCall.operator \in UpdateOperators => opCall.b = PyInt(0)
    /\ opOut = [kind |-> "none"]
    /\ opDeclared = <<Target(opCall.operator)>>
    /\ opPc = "declared"
    /\ OperatorsOthersIdle

OperatorsNext ==
    \/ ComputeOperators
    \/ StatementContinues
    \/ StatementExcept

SpecOperators == OperatorsInit /\ [][OperatorsNext]_vars

\* ---- C12
\* C12: evaluating `/`, `%`, `/=` or `%=` with a right operand equal to zero
\* gives the value null and no exception, and the statement that holds the
\* expression is traversed to its end.
C12_ZeroDivisorYieldsNull ==
    (/\ opPc \in {"computed", "done"}
     /\ opCall.operator \in {"/", "%", "/=", "%="}
     /\ EqualsZero(opCall.b))
    => /\ opOut.kind = "return" /\ opOut.value = PyNone
       /\ opPc = "done" => opDeclared = <<Target(opCall.operator), "z">>

(***************************************************************************)
(* Value computation: js_operators.py get_node_computed_value and the      *)
(* functions it calls, on a graph of AST nodes whose value cells may refer *)
(* to other nodes.                                                         *)
(*                                                                         *)
(* The AST is fixed; the value cells of its identifiers and of one call    *)
(* expression vary:                                                        *)
(*   1 Program                                                             *)
(*   2   MemberExpression  arr[0]        3 Identifier arr   4 Literal 0    *)
(*   5   ArrayExpression   [x]           6 Identifier x                    *)
(*   7   MemberExpression  f(g()).p      8 CallExpression f(g())           *)
(*         9 Identifier f   10 CallExpression g()   11 Identifier g        *)
(*         12 Identifier p                                                 *)
(*   13  ObjectExpression {k: x}        14 Property  15 Identifier k       *)
(*         16 Identifier x                                                 *)
(*   17  MemberExpression  o.k          18 Identifier o    19 Identifier k *)
(* A string is a sequence of tokens; the provenance lists the functions    *)
(* maintain on initial_node take no part in the values and are left out.   *)
(***************************************************************************)
NodeRef(n) == [type |-> "Node", id |-> n]
IsNode(v) == v.type = "Node"

cvName == <<"Program", "MemberExpression", "Identifier", "Literal", "ArrayExpression",
            "Identifier", "MemberExpression", "CallExpression", "Identifier",
            "CallExpression", "Identifier", "Identifier", "ObjectExpression", "Property",
            "Identifier", "Identifier", "MemberExpression", "Identifier", "Identifier">>
cvChildren == <<<<2, 5, 7, 13, 17>>, <<3, 4>>, <<>>, <<>>, <<6>>, <<>>, <<8, 12>>, <<9, 10>>,
                <<>>, <<11>>, <<>>, <<>>, <<14>>, <<15, 16>>, <<>>, <<>>, <<18, 19>>, <<>>,
                <<>>>>
cvParent == <<0, 1, 2, 2, 1, 5, 1, 7, 8, 8, 10, 7, 1, 13, 14, 14, 1, 17, 17>>
cvNodes == DOMAIN cvName

\* node.attributes: the name of an Identifier, the value of a Literal
cvAttributes ==
    [n \in cvNodes |->
        CASE n = 3 -> [name |-> PyStr(<<"arr">>)]
          [] n = 4 -> [value |-> PyInt(0)]
          [] n = 6 -> [name |-> PyStr(<<"x">>)]
          [] n = 9 -> [name |-> PyStr(<<"f">>)]
          [] n = 11 -> [name |-> PyStr(<<"g">>)]
          [] n = 12 -> [name |-> PyStr(<<"p">>)]
          [] n = 15 -> [name |-> PyStr(<<"k">>)]
          [] n = 16 -> [name |-> PyStr(<<"x">>)]
          [] n = 18 -> [name |-> PyStr(<<"o">>)]
          [] n = 19 -> [name |-> PyStr(<<"k">>)]
          [] OTHER -> NoAttributes]

CALL_EXPR == {"CallExpression", "TaggedTemplateExpression", "NewExpression"}
VALUE_EXPR == {"Literal", "ArrayExpression", "ObjectExpression", "ObjectPattern"} \cup CALL_EXPR

\* build_ast.py create_node: the classes that inherit from Value
IsValueExpr(n) == cvName[n] \in VALUE_EXPR
IsIdentifier(n) == cvName[n] = "Identifier"
IsValue(n) == IsValueExpr(n) \/ IsIdentifier(n)

RecDepthLimit == 6      \* stands for the 1000 of `if recdepth > 1000`
StackLimit == 20        \* stands for sys.setrecursionlimit(100000): nested Python calls

\* what a call gives back: its value, the visited set it was handed (the set
\* is shared by reference, so the caller sees what the call added) and the
\* heap: val the value cells, cnt the evaluations per node, bad set when the
\* interpreter's stack is exhausted
Ret(v, vis, s) == [v |-> v, vis |-> vis, s |-> s]

\* node.value for a Value, None where the revisit has no cell to read
CellOf(n, s) == IF IsValue(n) THEN s.val[n] ELSE PyNone

\* str(value) of a value or of a Node object
StrOf(v) == IF IsNode(v) THEN <<"<Node>">> ELSE str(v)

GlobalVarValues == {PyStr(<<g>>) : g \in GLOBAL_VAR}

\* the nodes under `n`, `n` first, in document order
RECURSIVE Subtree(_)
RECURSIVE SubtreeEach(_)
Subtree(n) == <<n>> \o SubtreeEach(cvChildren[n])
SubtreeEach(ns) == IF ns = <<>> THEN <<>> ELSE Subtree(Head(ns)) \o SubtreeEach(Tail(ns))

\* the nodes under `n` whose name (or, without a name, whose value) is prop
search_object_property(n, prop) ==
    LET Matches(m) ==
            IF "name" \in DOMAIN cvAttributes[m]
            THEN IsStr(prop) /\ cvAttributes[m].name = prop
            ELSE /\ "value" \in DOMAIN cvAttributes[m]
                 /\ IsStr(prop)
                 /\ cvAttributes[m].value = prop
    IN  SelectSeq(Subtree(n), Matches)

RECURSIVE get_node_computed_value(_, _, _, _, _, _)
RECURSIVE get_node_value(_, _, _, _, _)
RECURSIVE compute_member_expression(_, _, _, _, _)
RECURSIVE display_member_expression_value(_, _, _, _)
RECURSIVE display_each(_, _, _, _)
RECURSIVE compute_call_expression(_, _, _, _, _)
RECURSIVE compute_params(_, _, _, _, _, _)
RECURSIVE get_property_value(_, _, _, _, _)
RECURSIVE compute_children(_, _, _, _, _)
RECURSIVE property_values(_, _, _, _, _)

\* get_node_computed_value(node, keep_none, recdepth, recvisited); fr is the
\* depth of the Python stack
get_node_computed_value(n, keep_none, recdepth, vis, fr, s) ==
    CASE s.bad -> Ret(PyNone, vis, s)
      [] fr > StackLimit -> Ret(PyNone, vis, [s EXCEPT !.bad = TRUE])
      [] n \in vis -> Ret(CellOf(n, s), vis, s)
      [] recdepth > RecDepthLimit -> Ret(CellOf(n, s), vis \cup {n}, s)
      [] OTHER ->
            LET s1 == [s EXCEPT !.cnt[n] = @ + 1]
                vis1 == vis \cup {n}
                cell == CellOf(n, s1)
                r1 == IF IsNode(cell) /\ cell.id # n
                      THEN get_node_computed_value(cell.id, FALSE, recdepth + 1, vis1, fr + 1, s1)
                      ELSE Ret(cell, vis1, s1)
                r2 == IF r1.v = PyNone /\ ~keep_none
                      THEN get_node_value(n, recdepth + 1, r1.vis, fr + 1, r1.s)
                      ELSE r1
            IN  IF IsValue(n) /\ cvName[n] \notin CALL_EXPR /\ ~r2.s.bad
                THEN Ret(r2.v, r2.vis, [r2.s EXCEPT !.val[n] = r2.v])
                ELSE r2

get_node_value(n, recdepth, vis, fr, s) ==
    CASE IsValueExpr(n) /\ s.val[n] # PyNone -> Ret(s.val[n], vis, s)
      [] "value" \in DOMAIN cvAttributes[n] -> Ret(cvAttributes[n].value, vis, s)
      [] "name" \in DOMAIN cvAttributes[n] -> Ret(cvAttributes[n].name, vis, s)
      [] cvName[n] \in {"ArrayExpression", "ObjectExpression"} -> Ret(NodeRef(n), vis, s)
      [] cvName[n] = "MemberExpression" -> compute_member_expression(n, recdepth + 1, vis, fr + 1, s)
      [] cvName[n] \in CALL_EXPR -> compute_call_expression(n, recdepth + 1, vis, fr + 1, s)
      [] OTHER -> compute_children(cvChildren[n], recdepth, vis, fr, s)

\* any other node: its children are computed and the value is None
compute_children(ns, recdepth, vis, fr, s) ==
    IF ns = <<>>
    THEN Ret(PyNone, vis, s)
    ELSE LET r == get_node_computed_value(Head(ns), FALSE, recdepth + 1, vis, fr + 1, s)
         IN  compute_children(Tail(ns), recdepth, r.vis, fr, r.s)

\* value[0:-1] of the string display_member_expression_value builds
DisplayValue(n, vis, fr, s) ==
    LET d == display_member_expression_value(n, <<>>, fr + 1, s)
    IN  Ret(PyStr(SubSeq(d.v, 1, Len(d.v) - 1)), vis, d.s)

compute_member_expression(n, recdepth, vis, fr, s) ==
    LET obj == cvChildren[n][1]
        prop == cvChildren[n][2]
        rp == get_node_computed_value(prop, FALSE, recdepth + 1, vis, fr + 1, s)
        ro == get_node_computed_value(obj, FALSE, recdepth + 1, rp.vis, fr + 1, rp.s)
        prop_value == rp.v
        obj_value == ro.v
        member_expression_value ==
            CASE cvName[obj_value.id] \in {"Literal", "Identifier"} -> Ret(obj_value, ro.vis, ro.s)
              [] IsStr(prop_value) ->
                    property_values(search_object_property(obj_value.id, prop_value),
                                    recdepth, ro.vis, fr, ro.s)
              [] prop_value.type \in {"int", "bool"} ->
                    IF Len(cvChildren[obj_value.id]) > prop_value.num
                    THEN Ret(NodeRef(cvChildren[obj_value.id][prop_value.num + 1]), ro.vis, ro.s)
                    ELSE DisplayValue(n, ro.vis, fr, ro.s)
              [] OTHER -> Ret(PyNone, ro.vis, ro.s)
    IN  CASE ro.s.bad -> ro
          [] cvName[obj] = "ThisExpression" \/ obj_value \in GlobalVarValues ->
                Ret(prop_value, ro.vis, ro.s)
          [] ~IsNode(obj_value) -> DisplayValue(n, ro.vis, fr, ro.s)
          [] IsNode(member_expression_value.v) ->
                \* the value is computed without recvisited: a new, empty set
                LET rf == get_node_computed_value(member_expression_value.v.id, FALSE,
                                                  recdepth + 1, {}, fr + 1,
                                                  member_expression_value.s)
                IN  Ret(rf.v, member_expression_value.vis, rf.s)
          [] OTHER -> member_expression_value

\* the loop over obj_prop_list: the first property that works ends it
property_values(found, recdepth, vis, fr, s) ==
    IF found = <<>>
    THEN Ret(PyNone, vis, s)
    ELSE LET r == get_property_value(Head(found), recdepth + 1, vis, fr + 1, s)
         IN  IF r.worked \/ Len(found) = 1
             THEN Ret(r.v, r.vis, r.s)
             ELSE property_values(Tail(found), recdepth, r.vis, fr, r.s)

get_property_value(n, recdepth, vis, fr, s) ==
    IF cvName[n] \in {"Identifier", "Literal"} /\ cvName[cvParent[n]] = "Property"
    THEN LET prop_value == cvChildren[cvParent[n]][2]
             r == get_node_computed_value(prop_value, FALSE, recdepth + 1, vis, fr + 1, s)
         IN  IF cvName[prop_value] = "Literal"
             THEN [v |-> NodeRef(prop_value), vis |-> vis, s |-> s, worked |-> TRUE]
             ELSE [v |-> r.v, vis |-> r.vis, s |-> r.s, worked |-> TRUE]
    ELSE [v |-> PyNone, vis |-> vis, s |-> s, worked |-> FALSE]

\* every child is computed by a call that passes neither recdepth nor
\* recvisited: depth 0 and a new set
display_member_expression_value(n, value, fr, s) ==
    display_each(cvChildren[n], value, fr, s)

display_each(ns, value, fr, s) ==
    IF ns = <<>>
    THEN [v |-> value, s |-> s]
    ELSE LET child == Head(ns)
             d == IF cvName[child] = "MemberExpression"
                  THEN display_member_expression_value(child, value, fr + 1, s)
                  ELSE LET r == get_node_computed_value(child, FALSE, 0, {}, fr + 1, s)
                       IN  [v |-> value \o StrOf(r.v) \o <<".">>, s |-> r.s]
         IN  display_each(Tail(ns), d.v, fr, d.s)

\* the arguments, joined: node.children[1:]
compute_params(ns, first, recdepth, vis, fr, s) ==
    IF ns = <<>>
    THEN Ret(<<>>, vis, s)
    ELSE LET r == get_node_computed_value(Head(ns), FALSE, recdepth + 1, vis, fr + 1, s)
             rest == compute_params(Tail(ns), FALSE, recdepth, r.vis, fr, r.s)
         IN  Ret((IF first THEN <<>> ELSE <<", ">>) \o StrOf(r.v) \o rest.v, rest.vis, rest.s)

compute_call_expression(n, recdepth, vis, fr, s) ==
    LET callee == cvChildren[n][1]
        p == compute_params(Tail(cvChildren[n]), TRUE, recdepth, vis, fr, s)
        params == <<"(">> \o p.v \o <<")">>
    IN  CASE IsIdentifier(callee) ->
                LET r == get_node_computed_value(callee, FALSE, recdepth + 1, p.vis, fr + 1, p.s)
                IN  Ret(PyStr(StrOf(r.v) \o params), r.vis, r.s)
          [] cvName[callee] = "MemberExpression" ->
                LET d == DisplayValue(callee, p.vis, fr, p.s)
                IN  Ret(PyStr(d.v.chars \o params), d.vis, d.s)
          [] OTHER -> Ret(PyNone, p.vis, p.s)

\* what the value cells may hold before the call: the identifiers arr and o
\* an array, an object, a member expression or another identifier, the two
\* x a member expression or an identifier, the call g() a member expression
ArrayCells == {PyNone, PyStr(<<"s">>), NodeRef(2), NodeRef(5), NodeRef(6), NodeRef(13)}
ElementCells == {PyNone, PyStr(<<"s">>), NodeRef(2), NodeRef(3), NodeRef(17)}
CallCells == {PyNone, NodeRef(7)}

CellsOf(arr, x, g, y, o) ==
    [n \in cvNodes |->
        CASE n = 3 -> arr
          [] n = 6 -> x
          [] n = 10 -> g
          [] n = 16 -> y
          [] n = 18 -> o
          [] OTHER -> PyNone]

\* the nodes the top-level call is made on
TopNodes == {2, 3, 7, 17}

GetNodeComputedValue ==
    /\ cvPc = "graph"
    /\ LET r == get_node_computed_value(cvTop, FALSE, 0, {}, 1,
                                        [val |-> cvCells, cnt |-> cvCount, bad |-> FALSE])
       IN  /\ cvCells' = r.s.val
           /\ cvCount' = r.s.cnt
           /\ IF r.s.bad
              THEN \* the stack is exhausted: RecursionError, or the process dies
                   cvOut' \in {Raises("RecursionError"), [kind |-> "crash"]}
              ELSE cvOut' = Returned(r.v)
    /\ cvPc' = "done"
    /\ UNCHANGED cvTop
    /\ UNCHANGED cvOthers

ValueInit ==
    /\ cvCells \in {CellsOf(arr, x, g, y, o) :
                       arr \in ArrayCells, x \in ElementCells, g \in CallCells,
                       y \in ElementCells, o \in ArrayCells}
    /\ cvTop \in TopNodes
    /\ cvCount = [n \in cvNodes |-> 0]
    /\ cvOut = [kind |-> "none"]
    /\ cvPc = "graph"
    /\ ValueOthersIdle

ValueNext == GetNodeComputedValue

SpecValue == ValueInit /\ [][ValueNext]_vars

\* ---- C13
\* C13: get_node_computed_value terminates on every graph, cyclic value
\* cells included, and within one top-level call no node is evaluated twice.
C13_TerminatesEvaluatingOnce ==
    cvPc = "done" =>
        /\ cvOut.kind = "return"
        /\ \A n \in cvNodes : cvCount[n] <= 1

(***************************************************************************)
(* Data dependencies of a script of top-level statements on two variables: *)
(* data_flow.py var_declaration_df, assignment_expr_df, update_expr_df and *)
(* identifier reads, with the Global scope as only scope (entry = 1).      *)
(*                                                                         *)
(* A statement is one of                                                   *)
(*     var v = w;      v = w;      v += w;      v++;                       *)
(* where w is a variable or a literal.  The identifier nodes of statement  *)
(* i are <<i, 1>>, the variable written, and <<i, 2>>, the variable read.  *)
(***************************************************************************)
MaxStatements == 3  \* statements of a script

ScriptVars == {"x", "y"}
NoVar == "literal"

Statements ==
    [kind : {"declare", "assign", "augment"}, var : ScriptVars, from : ScriptVars \cup {NoVar}]
    \cup [kind : {"update"}, var : ScriptVars, from : {NoVar}]

Scripts == UNION {[1..n -> Statements] : n \in 1..MaxStatements}

\* the name of an identifier node of the script
ddName(script, id) == IF id[2] = 1 THEN script[id[1]].var ELSE script[id[1]].from

\* Scope.get_pos_identifier: first position of the name in var_list, 0 for None
scope_pos(script, scope, id) ==
    LET I == {i \in 1..Len(scope.var_list) : ddName(script, scope.var_list[i]) = ddName(script, id)}
    IN  IF I = {} THEN 0 ELSE CHOOSE i \in I : \A j \in I : i <= j

RECURSIVE set_data_dep_each(_, _, _)
set_data_dep_each(begins, id, deps) ==
    IF begins = <<>> THEN deps
    ELSE set_data_dep_each(Tail(begins), id, set_data_dependency(deps, Head(begins), id))

\* set_df with the variables an assignment has stored in var_if2_list: the
\* dependency starts at each of them, else at the node of var_list
set_df_if2(scope, var_index, id, deps) ==
    IF scope.var_if2_list[var_index] # <<>>
    THEN set_data_dep_each(scope.var_if2_list[var_index], id, deps)
    ELSE set_data_dependency(deps, scope.var_list[var_index], id)

\* assignment_df with update = False on the Global scope; st is the scope
\* and the dependencies drawn so far
global_assignment_df(script, id, st) ==
    LET var_index == scope_pos(script, st.scope, id)
    IN  IF var_index # 0
        THEN [st EXCEPT !.deps = set_df_if2(st.scope, var_index, id, @)]
        ELSE [st EXCEPT !.scope.unknown_var = @ \cup {id}]

\* var_decl_df on the Global scope: add_var, update_var or add_var_if2
global_var_decl_df(script, id, assignt, st) ==
    LET var_index == scope_pos(script, st.scope, id)
    IN  CASE var_index = 0 ->
                [st EXCEPT !.scope.var_list = Append(@, id),
                           !.scope.var_if2_list = Append(@, <<>>)]
          [] assignt ->
                [st EXCEPT !.scope.var_if2_list[var_index] = Append(@, id)]
          [] OTHER ->
                [st EXCEPT !.scope.var_list[var_index] = id,
                           !.scope.var_if2_list[var_index] = <<>>]

\* data_flow on the right-hand side: an Identifier not in id_list is read
read_df(script, i, st) ==
    IF script[i].from = NoVar THEN st ELSE global_assignment_df(script, <<i, 2>>, st)

var_declaration(script, i, st) ==
    read_df(script, i, global_var_decl_df(script, <<i, 1>>, FALSE, st))

assignment_expr_df(script, i, st) ==
    LET used == IF script[i].kind = "augment"
                THEN global_assignment_df(script, <<i, 1>>, st)
                ELSE st
    IN  read_df(script, i, global_var_decl_df(script, <<i, 1>>, TRUE, used))

update_expr_df(script, i, st) ==
    global_assignment_df(script, <<i, 1>>,
        global_var_decl_df(script, <<i, 1>>, TRUE,
            global_assignment_df(script, <<i, 1>>, st)))

ddState == [scope |-> ddScope, deps |-> ddEdges]

\* build_dfg_content has handled the next statement of the script
Traversed(st) ==
    /\ ddScope' = st.scope
    /\ ddEdges' = st.deps
    /\ ddDone' = ddDone + 1
    /\ UNCHANGED ddScript
    /\ UNCHANGED ddOthers

VariableDeclarationDf ==
    /\ ddDone < Len(ddScript)
    /\ ddScript[ddDone + 1].kind = "declare"
    /\ Traversed(var_declaration(ddScript, ddDone + 1, ddState))

AssignmentExprDf ==
    /\ ddDone < Len(ddScript)
    /\ ddScript[ddDone + 1].kind \in {"assign", "augment"}
    /\ Traversed(assignment_expr_df(ddScript, ddDone + 1, ddState))

UpdateExprDf ==
    /\ ddDone < Len(ddScript)
    /\ ddScript[ddDone + 1].kind = "update"
    /\ Traversed(update_expr_df(ddScript, ddDone + 1, ddState))

DataDepInit ==
    /\ ddScript \in Scripts
    /\ ddDone = 0
    /\ ddScope = [var_list |-> <<>>, var_if2_list |-> <<>>, unknown_var |-> {}]
    /\ ddEdges = <<>>
    /\ DataDepOthersIdle

DataDepNext ==
    \/ VariableDeclarationDf
    \/ AssignmentExprDf
    \/ UpdateExprDf

SpecDataDep == DataDepInit /\ [][DataDepNext]_vars

\* ---- C14
\* C14: every data-dependence edge joins two distinct identifier nodes and
\* no pair of nodes is joined by two edges, update expressions and augmented
\* assignments of a declared variable included.
C14_EdgesJoinDistinctNodes ==
    /\ \A i \in DOMAIN ddEdges : ddEdges[i][1] # ddEdges[i][2]
    /\ \A i, j \in DOMAIN ddEdges : ddEdges[i] = ddEdges[j] => i = j

(***************************************************************************)
(* The control-flow builder: control_flow.py control_flow and the handlers *)
(* it dispatches to, node.py Statement.set_control_dependency and          *)
(* Node.set_statement_dependency.  The AST is one of a family of scripts   *)
(* with every conditional construct; it holds no comment node.             *)
(***************************************************************************)
MaxBody == 1   \* statements of the script
MaxCases == 2  \* cases of a switch statement

CONDITIONAL ==
    {"DoWhileStatement", "ForStatement", "ForOfStatement", "ForInStatement", "IfStatement",
     "SwitchCase", "SwitchStatement", "TryStatement", "WhileStatement", "ConditionalExpression"}

UNSTRUCTURED == {"BreakStatement", "ContinueStatement"}

STATEMENTS == EPSILON \cup CONDITIONAL \cup UNSTRUCTURED

\* create_node: the class of a node follows from its type
Node(name, body, children) ==
    Nd(name,
       CASE name \in STATEMENTS -> "Statement"
         [] name = "Literal" -> "ValueExpr"
         [] name = "Identifier" -> "Identifier"
         [] OTHER -> "Node",
       body, NoAttributes, children)

\* ---- the scripts
Does(body, v) == Node("ExpressionStatement", body, << Identifier("expression", v) >>)

Block(body, v) == Node("BlockStatement", body, << Does("body", v) >>)

SwitchCases ==
    { Node("SwitchCase", "cases", << Literal("test", "1"), Does("consequent", "a") >>),
      Node("SwitchCase", "cases", << Literal("test", "2") >>),
      Node("SwitchCase", "cases", << Does("consequent", "b") >>) }

Conditionals ==
    { Does("body", "a"),
      Node("ExpressionStatement", "body",
           << Node("ConditionalExpression", "expression",
                   << Identifier("test", "c"), Identifier("consequent", "a"),
                      Identifier("alternate", "b") >>) >>),
      Node("IfStatement", "body", << Identifier("test", "c"), Does("consequent", "a") >>),
      Node("IfStatement", "body",
           << Identifier("test", "c"), Does("consequent", "a"), Does("alternate", "b") >>),
      Node("WhileStatement", "body", << Identifier("test", "c"), Does("body", "a") >>),
      Node("DoWhileStatement", "body", << Does("body", "a"), Identifier("test", "c") >>),
      Node("ForStatement", "body",
           << Identifier("init", "i"), Identifier("test", "c"), Identifier("update", "u"),
              Does("body", "a") >>),
      Node("ForInStatement", "body",
           << Identifier("left", "k"), Identifier("right", "o"), Does("body", "a") >>),
      Node("TryStatement", "body",
           << Block("block", "a"),
              Node("CatchClause", "handler", << Identifier("param", "e"), Block("body", "b") >>) >>),
      Node("TryStatement", "body", << Block("block", "a"), Block("finalizer", "c") >>),
      Node("TryStatement", "body",
           << Block("block", "a"),
              Node("CatchClause", "handler", << Identifier("param", "e"), Block("body", "b") >>),
              Block("finalizer", "c") >>) }
    \cup { Node("SwitchStatement", "body", << Identifier("discriminant", "d") >> \o cases) :
             cases \in UNION {[1..n -> SwitchCases] : n \in 0..MaxCases} }

ControlScripts ==
    {Program(body) : body \in UNION {[1..n -> Conditionals] : n \in 1..MaxBody}}

\* ---- the dependencies: an entry of the list of node `of`
Dep(of, extremity, label) == [of |-> of, extremity |-> extremity, label |-> label]

NoDeps ==
    [control_dep_children |-> <<>>, control_dep_parents |-> <<>>,
     statement_dep_children |-> <<>>, statement_dep_parents |-> <<>>]

\* Statement.set_control_dependency: a node that is no Statement has no
\* control_dep_parents, and the AttributeError is caught
set_control_dependency(tree, node, extremity, label, deps) ==
    LET children == [deps EXCEPT !.control_dep_children = Append(@, Dep(node, extremity, label))]
    IN  IF Sub(tree, extremity).cls = "Statement"
        THEN [children EXCEPT !.control_dep_parents = Append(@, Dep(extremity, node, label))]
        ELSE children

set_statement_dependency(node, extremity, deps) ==
    [deps EXCEPT !.statement_dep_children = Append(@, Dep(node, extremity, "")),
                 !.statement_dep_parents = Append(@, Dep(extremity, node, ""))]

link_expression(node, node_parent, deps) == set_statement_dependency(node_parent, node, deps)

Child(node, i) == Append(node, i)

NbChildren(tree, node) == Len(Sub(tree, node).children)

\* for child in node.children, from child number i on
RECURSIVE epsilon_statement_cf_from(_, _, _, _)
epsilon_statement_cf_from(tree, node, i, deps) ==
    IF i > NbChildren(tree, node) THEN deps
    ELSE epsilon_statement_cf_from(tree, node, i + 1,
            IF Sub(tree, Child(node, i)).cls = "Statement"
            THEN set_control_dependency(tree, node, Child(node, i), "e", deps)
            ELSE link_expression(Child(node, i), node, deps))

epsilon_statement_cf(tree, node, deps) == epsilon_statement_cf_from(tree, node, 1, deps)

do_while_cf(tree, node, deps) ==
    link_expression(Child(node, 2), node,
        set_control_dependency(tree, node, Child(node, 1), "true", deps))

RECURSIVE for_cf_from(_, _, _, _)
for_cf_from(tree, node, i, deps) ==
    IF i > NbChildren(tree, node) THEN deps
    ELSE for_cf_from(tree, node, i + 1,
            IF Sub(tree, Child(node, i)).body # "body"
            THEN link_expression(Child(node, i), node, deps)
            ELSE set_control_dependency(tree, node, Child(node, i), "true", deps))

for_cf(tree, node, deps) == for_cf_from(tree, node, 1, deps)

if_cf(tree, node, deps) ==
    LET test == link_expression(Child(node, 1), node, deps)
        consequent == set_control_dependency(tree, node, Child(node, 2), "true", test)
    IN  CASE NbChildren(tree, node) > 2 ->
                set_control_dependency(tree, node, Child(node, 3), "false", consequent)
          [] NbChildren(tree, node) > 1 -> consequent
          [] OTHER -> test

try_cf(tree, node, deps) ==
    LET block == set_control_dependency(tree, node, Child(node, 1), "true", deps)
        second == set_control_dependency(tree, node, Child(node, 2),
                      IF Sub(tree, Child(node, 2)).body = "handler" THEN "false" ELSE "e", block)
    IN  IF /\ NbChildren(tree, node) > 2
           /\ Sub(tree, Child(node, 3)).body = "finalizer"
        THEN set_control_dependency(tree, node, Child(node, 3), "e", second)
        ELSE second

while_cf(tree, node, deps) ==
    set_control_dependency(tree, node, Child(node, 2), "true",
        link_expression(Child(node, 1), node, deps))

\* for i in range(j, nb_child)
RECURSIVE switch_case_cf_from(_, _, _, _)
switch_case_cf_from(tree, node, i, deps) ==
    IF i > NbChildren(tree, node) THEN deps
    ELSE switch_case_cf_from(tree, node, i + 1,
            set_control_dependency(tree, node, Child(node, i), "true", deps))

switch_case_cf(tree, node, last, deps) ==
    CASE NbChildren(tree, node) > 1 ->
            IF ~last
            THEN switch_case_cf_from(tree, node, 2, link_expression(Child(node, 1), node, deps))
            ELSE switch_case_cf_from(tree, node, 1, deps)
      [] NbChildren(tree, node) = 1 ->
            set_control_dependency(tree, node, Child(node, 1), "true", deps)
      [] OTHER -> deps

\* for i in range(2, len(switch_cases)); children are numbered from 1 here
RECURSIVE switch_cf_from(_, _, _, _)
switch_cf_from(tree, node, i, deps) ==
    IF i > NbChildren(tree, node) THEN deps
    ELSE switch_cf_from(tree, node, i + 1,
            switch_case_cf(tree, Child(node, i), i = NbChildren(tree, node),
                set_control_dependency(tree, Child(node, i - 1), Child(node, i), "false", deps)))

switch_cf(tree, node, deps) ==
    LET discriminant == link_expression(Child(node, 1), node, deps)
    IN  IF NbChildren(tree, node) > 1
        THEN switch_cf_from(tree, node, 3,
                switch_case_cf(tree, Child(node, 2), FALSE,
                    set_control_dependency(tree, node, Child(node, 2), "e", discriminant)))
        ELSE discriminant

RECURSIVE link_children_from(_, _, _, _)
link_children_from(tree, node, i, deps) ==
    IF i > NbChildren(tree, node) THEN deps
    ELSE link_children_from(tree, node, i + 1, link_expression(Child(node, i), node, deps))

\* control_flow visits every node below Program, a node before its children
RECURSIVE Visits(_, _)
RECURSIVE VisitsFrom(_, _, _)
Visits(tree, node) == << node >> \o VisitsFrom(tree, node, 1)

VisitsFrom(tree, node, i) ==
    IF i > NbChildren(tree, node) THEN <<>>
    ELSE Visits(tree, Child(node, i)) \o VisitsFrom(tree, node, i + 1)

\* control_flow has handled the next node and goes on with the ones below it
Visited(deps) ==
    /\ cfDeps' = deps
    /\ cfTodo' = Tail(cfTodo)
    /\ UNCHANGED cfAst
    /\ UNCHANGED cfOthers

EpsilonStatementCf ==
    /\ cfTodo # <<>>
    /\ Sub(cfAst, Head(cfTodo)).name \in EPSILON \cup UNSTRUCTURED
    /\ Visited(epsilon_statement_cf(cfAst, Head(cfTodo), cfDeps))

DoWhileCf ==
    /\ cfTodo # <<>>
    /\ Sub(cfAst, Head(cfTodo)).name \in {"DoWhileStatement"}
    /\ Visited(do_while_cf(cfAst, Head(cfTodo), cfDeps))

ForCf ==
    /\ cfTodo # <<>>
    /\ Sub(cfAst, Head(cfTodo)).name \in {"ForStatement", "ForOfStatement", "ForInStatement"}
    /\ Visited(for_cf(cfAst, Head(cfTodo), cfDeps))

IfCf ==
    /\ cfTodo # <<>>
    /\ Sub(cfAst, Head(cfTodo)).name \in {"IfStatement", "ConditionalExpression"}
    /\ Visited(if_cf(cfAst, Head(cfTodo), cfDeps))

WhileCf ==
    /\ cfTodo # <<>>
    /\ Sub(cfAst, Head(cfTodo)).name \in {"WhileStatement"}
    /\ Visited(while_cf(cfAst, Head(cfTodo), cfDeps))

TryCf ==
    /\ cfTodo # <<>>
    /\ Sub(cfAst, Head(cfTodo)).name \in {"TryStatement"}
    /\ Visited(try_cf(cfAst, Head(cfTodo), cfDeps))

SwitchCf ==
    /\ cfTodo # <<>>
    /\ Sub(cfAst, Head(cfTodo)).name \in {"SwitchStatement"}
    /\ Visited(switch_cf(cfAst, Head(cfTodo), cfDeps))

SwitchCaseCf ==
    /\ cfTodo # <<>>
    /\ Sub(cfAst, Head(cfTodo)).name \in {"SwitchCase"}
    /\ Visited(cfDeps)

\* any other node: every child hangs by a statement dependency
OtherCf ==
    /\ cfTodo # <<>>
    /\ Sub(cfAst, Head(cfTodo)).name \notin STATEMENTS
    /\ Visited(link_children_from(cfAst, Head(cfTodo), 1, cfDeps))

ControlFlowInit ==
    /\ cfAst \in ControlScripts
    /\ cfTodo = VisitsFrom(cfAst, <<>>, 1)
    /\ cfDeps = NoDeps
    /\ ControlFlowOthersIdle

ControlFlowNext ==
    \/ EpsilonStatementCf
    \/ DoWhileCf
    \/ ForCf
    \/ IfCf
    \/ WhileCf
    \/ TryCf
    \/ SwitchCf
    \/ SwitchCaseCf
    \/ OtherCf

SpecControlFlow == ControlFlowInit /\ [][ControlFlowNext]_vars

Entries(list) == {list[i] : i \in DOMAIN list}

\* ---- C15
\* C15: every dependence is registered on both of its nodes: an entry to v
\* in the children list of u has an entry to u with the same label in the
\* corresponding parents list of v, whatever kind of node v is.
C15_DependenciesMirrored ==
    /\ \A d \in Entries(cfDeps.control_dep_children) :
            Dep(d.extremity, d.of, d.label) \in Entries(cfDeps.control_dep_parents)
    /\ \A d \in Entries(cfDeps.statement_dep_children) :
            Dep(d.extremity, d.of, d.label) \in Entries(cfDeps.statement_dep_parents)

\* ---- C18
\* C18: when control_flow has run, every control dependency ends at a
\* Statement node and is labelled true, false or epsilon, for conditional
\* expressions, every switch case and the loops and try statements alike.
C18_ControlTargetsAreStatements ==
    cfTodo = <<>> =>
        \A d \in Entries(cfDeps.control_dep_children) :
            /\ Sub(cfAst, d.extremity).cls = "Statement"
            /\ d.label \in {"true", "false", "e"}

(***************************************************************************)
(* Function scopes on the scope stack: data_flow.py function_scope, called *)
(* for a function node by build_dfg_content, by handle_call_expr and by    *)
(* set_data_dep, and get_var_branch, which puts Branch scopes in between.  *)
(*                                                                         *)
(* fsScopes is the list `scopes`; fsFrames holds the handlers in progress, *)
(* innermost last, each with the number of calls it has made.  Which       *)
(* function may be reached from which is the call graph fsCalls.           *)
(***************************************************************************)
MaxCalls == 2     \* function_scope calls made while traversing one body
MaxBranches == 1  \* Branch scopes on the stack

LIMIT_RETRAVERSE == 1

Functions == {"f", "g"}
NoFunction == "None"

FunctionScope(function) == [name |-> "Function", function |-> function]

BranchScope == [name |-> "Branch_true", function |-> NoFunction]

GlobalScope == [name |-> "Global", function |-> NoFunction]

Frame(handler, function) == [handler |-> handler, function |-> function, calls |-> 0]

\* function_scope counting only neighbouring scopes of one function
rec_neighbours(scopes) ==
    Cardinality({i \in DOMAIN scopes :
                    /\ i < Len(scopes)
                    /\ scopes[i].function # NoFunction
                    /\ scopes[i].function = scopes[i + 1].function})

\* function_scope: the number of pairs of scopes of one and the same function
rec(scopes) ==
    Cardinality({p \in (DOMAIN scopes) \X (DOMAIN scopes) :
                    /\ p[1] < p[2]
                    /\ scopes[p[1]].function # NoFunction
                    /\ scopes[p[2]].function # NoFunction
                    /\ scopes[p[1]].function = scopes[p[2]].function})

\* the handler in progress has made one more call
Called(frames) == [frames EXCEPT ![Len(frames)].calls = @ + 1]

MayCall ==
    /\ fsFrames # <<>>
    /\ Last(fsFrames).calls < MaxCalls

\* function_scope(node) is called while the body of the innermost handler
\* is traversed: the scope is added and the body of node traversed unless
\* rec has reached LIMIT_RETRAVERSE
CallFunctionScope(node) ==
    /\ MayCall
    /\ <<Last(fsFrames).function, node>> \in fsCalls
    /\ IF rec(fsScopes) < LIMIT_RETRAVERSE
       THEN /\ fsScopes' = Append(fsScopes, FunctionScope(node))
            /\ fsFrames' = Append(Called(fsFrames), Frame("function_scope", node))
            /\ fsLast' = "traversed"
       ELSE /\ fsFrames' = Called(fsFrames)
            /\ fsLast' = "skipped"
            /\ UNCHANGED fsScopes
    /\ UNCHANGED fsCalls
    /\ UNCHANGED fsOthers

\* the children of node are traversed: let_const_scope and scopes.pop()
FunctionScopeReturns ==
    /\ fsFrames # <<>>
    /\ Last(fsFrames).handler = "function_scope"
    /\ fsScopes' = Pop(fsScopes)
    /\ fsFrames' = Pop(fsFrames)
    /\ UNCHANGED <<fsCalls, fsLast>>
    /\ UNCHANGED fsOthers

\* an exception leaves function_scope before scopes.pop(); the data_flow
\* call of the statement being traversed catches it
FunctionScopeRaises ==
    /\ fsFrames # <<>>
    /\ Last(fsFrames).handler = "function_scope"
    /\ fsFrames' = Pop(fsFrames)
    /\ UNCHANGED <<fsCalls, fsScopes, fsLast>>
    /\ UNCHANGED fsOthers

\* get_var_branch: the statements of a branch are traversed in a scope of
\* their own, within the function the branch is in
GetVarBranch ==
    /\ MayCall
    /\ Cardinality({i \in DOMAIN fsScopes : fsScopes[i].name = "Branch_true"}) < MaxBranches
    /\ fsScopes' = Append(fsScopes, BranchScope)
    /\ fsFrames' = Append(Called(fsFrames), Frame("get_var_branch", Last(fsFrames).function))
    /\ UNCHANGED <<fsCalls, fsLast>>
    /\ UNCHANGED fsOthers

GetVarBranchReturns ==
    /\ fsFrames # <<>>
    /\ Last(fsFrames).handler = "get_var_branch"
    /\ fsScopes' = Pop(fsScopes)
    /\ fsFrames' = Pop(fsFrames)
    /\ UNCHANGED <<fsCalls, fsLast>>
    /\ UNCHANGED fsOthers

\* df_scoping has traversed the children of Program
DfScopingReturns ==
    /\ fsFrames # <<>>
    /\ Last(fsFrames).handler = "df_scoping"
    /\ fsFrames' = Pop(fsFrames)
    /\ UNCHANGED <<fsCalls, fsScopes, fsLast>>
    /\ UNCHANGED fsOthers

FunctionScopeInit ==
    /\ fsCalls \in SUBSET ((Functions \cup {NoFunction}) \X Functions)
    /\ fsScopes = << GlobalScope >>
    /\ fsFrames = << Frame("df_scoping", NoFunction) >>
    /\ fsLast = "none"
    /\ FunctionScopeOthersIdle

FunctionScopeNext ==
    \/ \E node \in Functions : CallFunctionScope(node)
    \/ FunctionScopeReturns
    \/ FunctionScopeRaises
    \/ GetVarBranch
    \/ GetVarBranchReturns
    \/ DfScopingReturns

SpecFunctionScope == FunctionScopeInit /\ [][FunctionScopeNext]_vars

ScopesOf(function) ==
    Cardinality({i \in DOMAIN fsScopes : fsScopes[i] = FunctionScope(function)})

\* ---- C16
\* C16: at every point of the traversal no function has more than
\* 1 + LIMIT_RETRAVERSE Function scopes on the scope stack, whatever the
\* call graph, direct and mutual recursion included.
C16_FunctionScopesBounded ==
    \A function \in Functions : ScopesOf(function) <= 1 + LIMIT_RETRAVERSE

\* f is on the stack 1 + LIMIT_RETRAVERSE times with g in between, and a
\* further function_scope call has been skipped
C16_Witness ==
    /\ ScopesOf("f") = 1 + LIMIT_RETRAVERSE
    /\ ScopesOf("g") >= 1
    /\ fsLast = "skipped"

(***************************************************************************)
(* The size of stored values: node.py Value.set_value with                 *)
(* shorten_value_list and shorten_value_dict, data_flow.py set_data_dep,   *)
(* which hands the value of a node to another node, and                    *)
(* pointer_analysis.py define_obj_properties, which adds a property to the *)
(* mapping an object already has.                                          *)
(*                                                                         *)
(* A string is given by its length.  A mapping is an object of the heap    *)
(* vsHeap, named by its position: two cells may hold the same mapping.     *)
(* The entries of a mapping are in insertion order, as in a Python dict.   *)
(***************************************************************************)
MaxWrites == 3  \* nodes whose value is written

LIMIT_SIZE == 10000

Lengths == {1, 6000, 12000}

PropertyNames == {"a", "b"}

NoneValue == [type |-> "NoneType"]

StrValue(len) == [type |-> "str", len |-> len]

ListValue(items) == [type |-> "list", items |-> items]

DictValue(address) == [type |-> "dict", address |-> address]

\* an entry k: v of a mapping: v is a string or an empty mapping
Entry(key, klen, vtype, vlen) == [key |-> key, klen |-> klen, vtype |-> vtype, vlen |-> vlen]

\* shorten_value_list on a list of strings, from element i on
RECURSIVE shorten_value_list(_, _, _, _)
shorten_value_list(value_list, i, value_list_shortened, counter) ==
    IF i > Len(value_list)
    THEN [counter |-> counter, shortened |-> value_list_shortened]
    ELSE LET counted == counter + value_list[i]
         IN  shorten_value_list(value_list, i + 1,
                 IF counted < LIMIT_SIZE
                 THEN Append(value_list_shortened, value_list[i])
                 ELSE value_list_shortened,
                 counted)

\* shorten_value_dict, from entry i on
RECURSIVE shorten_value_dict(_, _, _, _)
shorten_value_dict(value_dict, i, value_dict_shortened, counter) ==
    IF i > Len(value_dict)
    THEN [counter |-> counter, shortened |-> value_dict_shortened]
    ELSE LET e == value_dict[i]
             counted == counter + e.klen + e.vlen
         IN  IF e.vtype = "dict"
             THEN IF counted >= LIMIT_SIZE
                  THEN [counter |-> counted, shortened |-> Append(value_dict_shortened, e)]
                  ELSE shorten_value_dict(value_dict, i + 1, Append(value_dict_shortened, e),
                                          counted)
             ELSE shorten_value_dict(value_dict, i + 1,
                      IF counted < LIMIT_SIZE
                      THEN Append(value_dict_shortened, e)
                      ELSE value_dict_shortened,
                      counted)

SmallerOf(a, b) == IF a < b THEN a ELSE b

\* Value.set_value(value): what is stored, and the heap, where a shortened
\* mapping is a new object
set_value(value, heap) ==
    CASE value.type = "list" ->
            LET s == shorten_value_list(value.items, 1, <<>>, 0)
            IN  [value |-> IF s.counter >= LIMIT_SIZE THEN ListValue(s.shortened) ELSE value,
                 heap |-> heap]
      [] value.type = "dict" ->
            LET s == shorten_value_dict(heap[value.address], 1, <<>>, 0)
            IN  IF s.counter >= LIMIT_SIZE
                THEN [value |-> DictValue(Len(heap) + 1), heap |-> Append(heap, s.shortened)]
                ELSE [value |-> value, heap |-> heap]
      [] value.type = "str" ->
            [value |-> StrValue(SmallerOf(value.len, LIMIT_SIZE)), heap |-> heap]
      [] OTHER -> [value |-> value, heap |-> heap]

\* previous_prop[prop] = value: in place, an existing key keeps its position
PutItem(dict, e) ==
    IF \E i \in DOMAIN dict : dict[i].key = e.key
    THEN [i \in DOMAIN dict |-> IF dict[i].key = e.key THEN e ELSE dict[i]]
    ELSE Append(dict, e)

\* define_obj_properties(o.prop = value) where obj_init is what the cell of
\* o holds: all_prop and the heap
define_obj_properties(obj_init, prop, value, heap) ==
    LET e == Entry(prop, 1, "str", value.len)
    IN  CASE obj_init.type = "dict" ->
                [all_prop |-> obj_init,
                 heap |-> [heap EXCEPT ![obj_init.address] = PutItem(@, e)]]
          [] obj_init.type = "str" ->
                [all_prop |-> DictValue(Len(heap) + 1),
                 heap |-> Append(heap, << Entry("obj_init", obj_init.len, "dict", 0), e >>)]
          [] OTHER ->
                [all_prop |-> DictValue(Len(heap) + 1), heap |-> Append(heap, << e >>)]

\* get_node_computed_value(obj): the value of the Identifier o, its name
\* when it has none
obj_init(value) == IF value = NoneValue THEN StrValue(Len(<< "o" >>)) ELSE value

Values ==
    {NoneValue} \cup {StrValue(len) : len \in Lengths}
    \cup {ListValue(items) : items \in UNION {[1..n -> Lengths] : n \in 0..2}}

\* the value of a new node is written
Written(stored) ==
    /\ vsCells' = Append(vsCells, stored.value)
    /\ vsHeap' = stored.heap
    /\ UNCHANGED vsOthers

\* set_value on the value computed for a node: a string or a list
SetValue(value) ==
    /\ Len(vsCells) < MaxWrites
    /\ Written(set_value(value, vsHeap))

\* set_data_dep: identifier_node.set_value(begin_data_dep.value)
SetDataDep(begin_data_dep) ==
    /\ Len(vsCells) < MaxWrites
    /\ begin_data_dep \in DOMAIN vsCells
    /\ Written(set_value(vsCells[begin_data_dep], vsHeap))

\* map_var2value on o.prop = value, o a node with a data dependency from
\* begin_data_dep: obj, all_prop = define_obj_properties(...);
\* obj.set_value(all_prop)
DefineObjProperties(begin_data_dep, prop, value) ==
    /\ Len(vsCells) < MaxWrites
    /\ begin_data_dep \in DOMAIN vsCells
    /\ LET handed == set_value(vsCells[begin_data_dep], vsHeap)
           defined == define_obj_properties(obj_init(handed.value), prop, value, handed.heap)
       IN  Written(set_value(defined.all_prop, defined.heap))

ValueSizeInit ==
    /\ vsCells = << NoneValue >>
    /\ vsHeap = <<>>
    /\ ValueSizeOthersIdle

ValueSizeNext ==
    \/ \E value \in Values : SetValue(value)
    \/ \E begin_data_dep \in 1..MaxWrites : SetDataDep(begin_data_dep)
    \/ \E begin_data_dep \in 1..MaxWrites, prop \in PropertyNames, len \in Lengths :
            DefineObjProperties(begin_data_dep, prop, StrValue(SmallerOf(len, LIMIT_SIZE)))

SpecValueSize == ValueSizeInit /\ [][ValueSizeNext]_vars

RECURSIVE Total(_)
Total(lens) == IF lens = <<>> THEN 0 ELSE Head(lens) + Total(Tail(lens))

\* the characters of the strings a value holds
Content(value) ==
    CASE value.type = "str" -> value.len
      [] value.type = "list" -> Total(value.items)
      [] value.type = "dict" ->
            Total([i \in DOMAIN vsHeap[value.address] |-> vsHeap[value.address][i].vlen])
      [] OTHER -> 0

\* ---- C17
\* C17: whatever values have been written, no cell holds a string of more
\* than LIMIT_SIZE characters nor a list or mapping whose strings total
\* more than LIMIT_SIZE characters, a mapping extended in place after it
\* was stored included.
C17_CellsWithinLimitSize ==
    \A n \in DOMAIN vsCells : Content(vsCells[n]) <= LIMIT_SIZE

(***************************************************************************)
(* build_pdg.py function_hoisting with node.py Node.adopt_child.  A node   *)
(* is named by its path in the AST esprima gave, hsAst; hsChildren and     *)
(* hsParent are the children lists and parents as adopt_child changes      *)
(* them.  hsStack holds the calls of function_hoisting in progress,        *)
(* innermost last, each with the position its loop has reached in          *)
(* node.children.                                                          *)
(***************************************************************************)
MaxSiblings == 3  \* function declarations that are siblings in a block
MaxItems == 2     \* statements of the script

FunctionDeclaration(body, statements) ==
    Node("FunctionDeclaration", body,
         << Identifier("id", "f"), Node("BlockStatement", "body", statements) >>)

\* n sibling declarations of functions with an empty body
Declarations(n) == [i \in 1..n |-> FunctionDeclaration("body", <<>>)]

InFunction(name, statements) ==
    Node("ExpressionStatement", "body",
         << Node(name, "expression", << Node("BlockStatement", "body", statements) >>) >>)

HoistingItems ==
    { Does("body", "x"), FunctionDeclaration("body", <<>>) }
    \cup UNION { { Node("BlockStatement", "body", Declarations(n)),
                   FunctionDeclaration("body", Declarations(n)),
                   FunctionDeclaration("body",
                                       << Node("BlockStatement", "body", Declarations(n)) >>),
                   InFunction("FunctionExpression", Declarations(n)),
                   InFunction("ArrowFunctionExpression", Declarations(n)) } :
                 n \in 1..MaxSiblings }

HoistingScripts ==
    {Program(body) : body \in UNION {[1..n -> HoistingItems] : n \in 1..MaxItems}}

HoistingNodes(tree) == {<<>>} \cup {VisitsFrom(tree, <<>>, 1)[i] : i \in DOMAIN VisitsFrom(tree, <<>>, 1)}

\* list.remove(x): without the first element equal to x
RECURSIVE Remove(_, _)
Remove(list, x) ==
    IF list = <<>> THEN <<>>
    ELSE IF Head(list) = x THEN Tail(list) ELSE << Head(list) >> \o Remove(Tail(list), x)

\* Node.adopt_child: self leaves the children of its parent and becomes the
\* first child of step_daddy
adopt_child(children, parent, self, step_daddy) ==
    LET removed == [children EXCEPT ![parent[self]] = Remove(@, self)]
    IN  [children |-> [removed EXCEPT ![step_daddy] = << self >> \o @],
         parent |-> [parent EXCEPT ![self] = step_daddy]]

Call(node, entry) == [node |-> node, entry |-> entry, i |-> 1]

InLoop ==
    /\ hsStack # <<>>
    /\ Last(hsStack).i <= Len(hsChildren[Last(hsStack).node])

\* `for child in node.children`: the child the loop is at
NextChild == hsChildren[Last(hsStack).node][Last(hsStack).i]

\* the loop moves on and function_hoisting(child, entry) is called
Recurse(child, entry) ==
    /\ hsStack' = Append([hsStack EXCEPT ![Len(hsStack)].i = @ + 1], Call(child, entry))
    /\ UNCHANGED hsAst
    /\ UNCHANGED hsOthers

HoistFunctionDeclaration ==
    /\ InLoop
    /\ Sub(hsAst, NextChild).name = "FunctionDeclaration"
    /\ LET adopted == adopt_child(hsChildren, hsParent, NextChild, Last(hsStack).entry)
       IN  /\ hsChildren' = adopted.children
           /\ hsParent' = adopted.parent
    /\ hsMoves' = [hsMoves EXCEPT ![NextChild] = @ + 1]
    /\ Recurse(NextChild, NextChild)

HoistFunctionExpression ==
    /\ InLoop
    /\ Sub(hsAst, NextChild).name = "FunctionExpression"
    /\ UNCHANGED <<hsChildren, hsParent, hsMoves>>
    /\ Recurse(NextChild, NextChild)

HoistOther ==
    /\ InLoop
    /\ Sub(hsAst, NextChild).name \notin {"FunctionDeclaration", "FunctionExpression"}
    /\ UNCHANGED <<hsChildren, hsParent, hsMoves>>
    /\ Recurse(NextChild, Last(hsStack).entry)

\* the loop has reached the end of node.children
HoistingReturns ==
    /\ hsStack # <<>>
    /\ Last(hsStack).i > Len(hsChildren[Last(hsStack).node])
    /\ hsStack' = Pop(hsStack)
    /\ UNCHANGED <<hsAst, hsChildren, hsParent, hsMoves>>
    /\ UNCHANGED hsOthers

HoistingInit ==
    /\ hsAst \in HoistingScripts
    /\ hsChildren = [n \in HoistingNodes(hsAst) |->
                        [i \in 1..Len(Sub(hsAst, n).children) |-> Append(n, i)]]
    /\ hsParent = [n \in HoistingNodes(hsAst) |-> ParentOf(n)]
    /\ hsMoves = [n \in HoistingNodes(hsAst) |-> 0]
    /\ hsStack = << Call(<<>>, <<>>) >>
    /\ HoistingOthersIdle

HoistingNext ==
    \/ HoistFunctionDeclaration
    \/ HoistFunctionExpression
    \/ HoistOther
    \/ HoistingReturns

SpecHoisting == HoistingInit /\ [][HoistingNext]_vars

FunctionNames == {"FunctionDeclaration", "FunctionExpression", "ArrowFunctionExpression"}

\* the nearest function the node is written in, Program when there is none
RECURSIVE EnclosingFunction(_, _)
EnclosingFunction(tree, n) ==
    IF n = <<>> THEN <<>>
    ELSE IF Sub(tree, ParentOf(n)).name \in FunctionNames \/ ParentOf(n) = <<>>
         THEN ParentOf(n)
         ELSE EnclosingFunction(tree, ParentOf(n))

IsDeclaration(n) == Sub(hsAst, n).name = "FunctionDeclaration"

\* ---- C19
\* C19: after function_hoisting every function declaration has been moved
\* exactly once, to the children of the nearest function it is written in
\* (or of Program); in every children list the function declarations come
\* before all other children; and every node is exactly once in the
\* children of exactly one node, its parent.
C19_DeclarationsHoistedOnce ==
    hsStack = <<>> =>
        /\ \A n \in DOMAIN hsMoves :
              IsDeclaration(n) =>
                 /\ hsMoves[n] = 1
                 /\ hsParent[n] = EnclosingFunction(hsAst, n)
        /\ \A p \in DOMAIN hsChildren : \A i, j \in DOMAIN hsChildren[p] :
              (i < j /\ IsDeclaration(hsChildren[p][j])) => IsDeclaration(hsChildren[p][i])
        /\ \A n \in DOMAIN hsParent :
              n # <<>> =>
                 /\ Cardinality({i \in DOMAIN hsChildren[hsParent[n]] :
                                    hsChildren[hsParent[n]][i] = n}) = 1
                 /\ \A p \in DOMAIN hsChildren :
                       p # hsParent[n] => \A i \in DOMAIN hsChildren[p] : hsChildren[p][i] # n

(***************************************************************************)
(* The let/const scopes of the data flow (pdg_js/data_flow.py).            *)
(*                                                                         *)
(* df_scoping walks the program; the handlers share one list of scopes.    *)
(* Each call of build_dfg_content in progress is a frame of lcFrames: its  *)
(* node, the children it has still to hand to data_flow, the               *)
(* already_in_bloc it saved, and for a ForStatement the loop counter and   *)
(* the test flag.  data_flow wraps build_dfg_content in a try that         *)
(* swallows every exception: a handler that raises is left at once and     *)
(* the caller goes on with the list of scopes as the handler left it.      *)
(* The scripts are made of blocks, for loops and var/let/const             *)
(* declarations; the variables the declarators add to a scope are not      *)
(* followed, no handler here reads them.                                   *)
(***************************************************************************)

LIMIT_LOOP == 1

MaxLets == 1        \* declarations in the body of an inner block or of a loop

Kinds == {"var", "let", "const"}

Declare(kind, body) ==
    [VariableDeclaration(kind, "x", Literal("init", 1)) EXCEPT !.body = body]

BlockStatement(body, statements) ==
    Nd("BlockStatement", "Statement", body, NoAttributes, statements)

BinaryExpression(body, operator, left, right) ==
    Nd("BinaryExpression", "Node", body, [operator |-> operator],
       << Literal("left", left), Literal("right", right) >>)

UpdateExpression(body, operator, name) ==
    Nd("UpdateExpression", "Node", body, [operator |-> operator],
       << Identifier("argument", name) >>)

\* for (<kind> x = 1; 1 % <divisor>; i++) { <statements> }
ForStatement(kind, divisor, statements) ==
    Nd("ForStatement", "Statement", "body", NoAttributes,
       << Declare(kind, "init"),
          BinaryExpression("test", "%", 1, divisor),
          UpdateExpression("update", "++", "i"),
          BlockStatement("body", statements) >>)

\* ---- the scripts analysed: up to MaxItems statements, at the top of the
\* program or in one block; a statement is a declaration, a block or a loop
LetConstBodies == SeqsUpTo({Declare(kind, "body") : kind \in Kinds}, MaxLets)

LetConstItems ==
    {Declare(kind, "body") : kind \in Kinds}
    \cup {BlockStatement("body", statements) : statements \in LetConstBodies}
    \cup {ForStatement(kind, divisor, statements) :
            kind \in {"var", "let"}, divisor \in 0..MaxOperand,
            statements \in LetConstBodies}

LetConstScripts ==
    LET Lists == SeqsUpTo(LetConstItems, MaxItems) \ {<<>>}
    IN {Program(statements) : statements \in Lists}
       \cup {Program(<< BlockStatement("body", statements) >>) : statements \in Lists}

\* ---- the frame of a call of build_dfg_content; pushes counts the
\* let_const scopes of the node the call has appended
Traversal(node, todo, already_in_bloc) ==
    [node |-> node, todo |-> todo, already_in_bloc |-> already_in_bloc,
     loop |-> 0, test |-> TRUE, pushes |-> 0]

\* the children statement_scope hands to data_flow: those hanging by a
\* statement dependency first, then those hanging by a control dependency
DepChildren(p) ==
    LET n == Sub(lcAst, p)
        paths == [i \in 1..Len(n.children) |-> Append(p, i)]
    IN IF n.name \in EPSILON
       THEN SelectSeq(paths, LAMBDA c : Sub(lcAst, c).cls # "Statement")
            \o SelectSeq(paths, LAMBDA c : Sub(lcAst, c).cls = "Statement")
       ELSE paths

\* Scope.set_in_bloc(True) on the last scope
set_in_bloc(scopes) == [scopes EXCEPT ![Len(scopes)].bloc = TRUE]

\* the VariableDeclaration branch: a let or const in a bloc opens the scope
\* named after the parent of the declaration unless that scope is the last
OpenLetConst(child, scopes) ==
    IF /\ Sub(lcAst, child).attributes.kind # "var"
       /\ Last(scopes).bloc
       /\ ~(/\ Last(scopes).name = "let_const"
            /\ Last(scopes).of = ParentOf(child))
    THEN Append(scopes, Scope("let_const", ParentOf(child)))
    ELSE scopes

\* let_const_scope with its second case: the scope below a Branch scope
CloseLetConst(p, scopes) ==
    LET n == Len(scopes)
    IN IF n > 1 /\ scopes[n].name = "let_const" /\ scopes[n].of = p
       THEN Pop(scopes)
       ELSE IF /\ n > 2
               /\ scopes[n].name \in {"Branch_true", "Branch_false"}
               /\ scopes[n - 1].name = "let_const"
               /\ scopes[n - 1].of = p
            THEN SubSeq(scopes, 1, n - 2) \o << scopes[n] >>
            ELSE scopes

\* go_out_bloc on the list of scopes
LeaveBloc(scopes, already_in_bloc) ==
    go_out_bloc([scopes |-> scopes], already_in_bloc).scopes

\* get_node_computed_value on the test of the loop: the BinaryExpression of
\* two Literals goes to compute_operators
TestValue(p) ==
    LET n == Sub(lcAst, p)
    IN compute_operators(n.attributes.operator,
                         PyInt(n.children[1].attributes.value),
                         PyInt(n.children[2].attributes.value))

\* the frames once the last one has handed its next child to data_flow
Handed(frames) == [frames EXCEPT ![Len(frames)].todo = Tail(@)]

HasNext == lcFrames # <<>> /\ Last(lcFrames).todo # <<>>

NextPath == Head(Last(lcFrames).todo)

\* ---- build_dfg_content on a VariableDeclaration
VariableDeclarationScope ==
    /\ HasNext
    /\ Sub(lcAst, NextPath).name = "VariableDeclaration"
    /\ LET opened == OpenLetConst(NextPath, lcScopes)
       IN /\ lcScopes' = opened
          /\ lcFrames' = [Handed(lcFrames) EXCEPT
                             ![Len(lcFrames)].pushes = @ + Len(opened) - Len(lcScopes)]
    /\ UNCHANGED << lcAst, lcOthers >>

\* ---- build_dfg_content on a Statement: statement_scope begins
StatementScopeBegins ==
    /\ HasNext
    /\ Sub(lcAst, NextPath).cls = "Statement"
    /\ Sub(lcAst, NextPath).name \notin {"VariableDeclaration", "ForStatement"}
    /\ lcScopes' = set_in_bloc(lcScopes)
    /\ lcFrames' = Append(Handed(lcFrames),
                          Traversal(NextPath, DepChildren(NextPath), Last(lcScopes).bloc))
    /\ UNCHANGED << lcAst, lcOthers >>

\* ---- statement_scope has handled every child: let_const_scope, then
\* go_out_bloc back in build_dfg_content
StatementScopeReturns ==
    /\ lcFrames # <<>>
    /\ Last(lcFrames).todo = <<>>
    /\ Sub(lcAst, Last(lcFrames).node).name \notin {"Program", "ForStatement"}
    /\ lcScopes' = LeaveBloc(CloseLetConst(Last(lcFrames).node, lcScopes),
                             Last(lcFrames).already_in_bloc)
    /\ lcFrames' = Pop(lcFrames)
    /\ UNCHANGED << lcAst, lcOthers >>

\* ---- build_dfg_content on a ForStatement up to its loop: init and test
\* go to data_flow, then the test is evaluated outside of any data_flow, so
\* an exception of the evaluation ends the handler
ForStatementBegins ==
    /\ HasNext
    /\ Sub(lcAst, NextPath).name = "ForStatement"
    /\ LET in_bloc == set_in_bloc(lcScopes)
           init == OpenLetConst(Append(NextPath, 1), in_bloc)
           test == TestValue(Append(NextPath, 2))
       IN /\ lcScopes' = init
          /\ lcFrames' =
                IF test.kind = "raise"
                THEN Handed(lcFrames)
                ELSE Append(Handed(lcFrames),
                            [Traversal(NextPath, <<>>, Last(lcScopes).bloc)
                                EXCEPT !.pushes = Len(init) - Len(in_bloc)])
    /\ UNCHANGED << lcAst, lcOthers >>

\* the condition of the while of the ForStatement branch
LoopGoesOn(frame) ==
    Truthy(TestValue(Append(frame.node, 2)).value) \/ frame.test

\* ---- one more turn of the loop: the body, then the update
ForStatementLoops ==
    /\ lcFrames # <<>>
    /\ Last(lcFrames).todo = <<>>
    /\ Sub(lcAst, Last(lcFrames).node).name = "ForStatement"
    /\ LoopGoesOn(Last(lcFrames))
    /\ Last(lcFrames).loop + 1 <= LIMIT_LOOP
    /\ LET child == Last(lcFrames).node
       IN lcFrames' = [lcFrames EXCEPT ![Len(lcFrames)] =
                          [@ EXCEPT !.test = FALSE, !.loop = @ + 1,
                                    !.todo = << Append(child, 4), Append(child, 3) >>]]
    /\ UNCHANGED << lcAst, lcScopes, lcOthers >>

\* ---- the loop is over or broken: let_const_scope, then go_out_bloc
ForStatementReturns ==
    /\ lcFrames # <<>>
    /\ Last(lcFrames).todo = <<>>
    /\ Sub(lcAst, Last(lcFrames).node).name = "ForStatement"
    /\ ~LoopGoesOn(Last(lcFrames)) \/ Last(lcFrames).loop + 1 > LIMIT_LOOP
    /\ lcScopes' = LeaveBloc(CloseLetConst(Last(lcFrames).node, lcScopes),
                             Last(lcFrames).already_in_bloc)
    /\ lcFrames' = Pop(lcFrames)
    /\ UNCHANGED << lcAst, lcOthers >>

\* ---- build_dfg_content on the update of a loop: no scope is opened
UpdateExpressionScope ==
    /\ HasNext
    /\ Sub(lcAst, NextPath).name = "UpdateExpression"
    /\ lcFrames' = Handed(lcFrames)
    /\ UNCHANGED << lcAst, lcScopes, lcOthers >>

\* ---- df_scoping of the Program node returns
LetConstDfScopingReturns ==
    /\ lcFrames # <<>>
    /\ Last(lcFrames).todo = <<>>
    /\ Sub(lcAst, Last(lcFrames).node).name = "Program"
    /\ lcFrames' = Pop(lcFrames)
    /\ UNCHANGED << lcAst, lcScopes, lcOthers >>

LetConstInit ==
    /\ lcAst \in LetConstScripts
    /\ lcScopes = << Scope("Global", <<>>) >>
    /\ lcFrames = << Traversal(<<>>, [i \in 1..Len(lcAst.children) |-> << i >>], FALSE) >>
    /\ LetConstOthersIdle

LetConstNext ==
    \/ VariableDeclarationScope
    \/ StatementScopeBegins
    \/ StatementScopeReturns
    \/ ForStatementBegins
    \/ ForStatementLoops
    \/ ForStatementReturns
    \/ UpdateExpressionScope
    \/ LetConstDfScopingReturns

SpecLetConst == LetConstInit /\ [][LetConstNext]_vars

\* is the node K being traversed
Traversing(K) == \E f \in DOMAIN lcFrames : lcFrames[f].node = K

IsLetConst(scope) == scope.name = "let_const"

\* C20: a scope let_const<K> is on the stack only while the node K is being
\* traversed, one traversal of K pushes it at most once, and none is left
\* on the stack once df_scoping of the program has returned.
C20_LetConstScopesFollowTraversal ==
    /\ \A i \in DOMAIN lcScopes :
          IsLetConst(lcScopes[i]) => Traversing(lcScopes[i].of)
    /\ \A f \in DOMAIN lcFrames : lcFrames[f].pushes <= 1
    /\ lcFrames = <<>> => \A i \in DOMAIN lcScopes : ~IsLetConst(lcScopes[i])

(***************************************************************************)
(* Straight-line scripts on one variable: the same handlers as SpecDataDep *)
(* on scripts that write x (declaration, plain or augmented assignment of  *)
(* a literal, update) and read it into y (var y = x; y = x).               *)
(***************************************************************************)
MaxStraight == 4    \* statements of a straight-line script

StraightWrites ==
    [kind : {"declare", "assign", "augment", "update"}, var : {"x"}, from : {NoVar}]

StraightReads == [kind : {"declare", "assign"}, var : {"y"}, from : {"x"}]

StraightScripts ==
    UNION {[1..n -> StraightWrites \cup StraightReads] : n \in 1..MaxStraight}

StraightLineInit ==
    /\ ddScript \in StraightScripts
    /\ ddDone = 0
    /\ ddScope = [var_list |-> <<>>, var_if2_list |-> <<>>, unknown_var |-> {}]
    /\ ddEdges = <<>>
    /\ DataDepOthersIdle

StraightLineNext ==
    \/ VariableDeclarationDf
    \/ AssignmentExprDf
    \/ UpdateExprDf

SpecStraightLine == StraightLineInit /\ [][StraightLineNext]_vars

\* the last statement before statement i that writes the variable i reads,
\* 0 when there is none
LastWrite(i) ==
    LET W == {j \in 1..(i - 1) : ddScript[j].var = ddScript[i].from}
    IN IF W = {} THEN 0 ELSE CHOOSE j \in W : \A k \in W : k <= j

\* ---- C23
\* C23: in straight-line code the read of a variable has a data dependency
\* from the most recent write of the variable before it, and from no other
\* node: after a declaration and two plain reassignments the read depends
\* on the last reassignment only.
C23_ReadDependsOnLastWrite ==
    /\ \A e \in DOMAIN ddEdges :
          ddEdges[e][2][2] = 2 =>
              ddEdges[e][1] = << LastWrite(ddEdges[e][2][1]), 1 >>
    /\ \A i \in 1..ddDone :
          (ddScript[i].from # NoVar /\ LastWrite(i) # 0) =>
              \E e \in DOMAIN ddEdges : ddEdges[e] = << << LastWrite(i), 1 >>, << i, 2 >> >>

(***************************************************************************)
(* The expansion of for loops: the ForStatement branch of                  *)
(* build_dfg_content on loops whose test compares or divides two literals. *)
(***************************************************************************)
MaxLoops == 1       \* for statements of a script

TestOperators == {"<", "%"}

\* for (<kind> x = 1; 1 <operator> <right>; i++) { <statements> }
ForLoop(kind, operator, right, statements) ==
    [ForStatement(kind, right, statements) EXCEPT
        !.children[2].attributes.operator = operator]

ForLoops ==
    {ForLoop(kind, operator, right, statements) :
        kind \in {"var", "let"}, operator \in TestOperators, right \in 0..MaxOperand,
        statements \in LetConstBodies}

ForLoopScripts ==
    {Program(statements) : statements \in SeqsUpTo(ForLoops, MaxLoops) \ {<<>>}}

ForLoopInit ==
    /\ lcAst \in ForLoopScripts
    /\ lcScopes = << Scope("Global", <<>>) >>
    /\ lcFrames = << Traversal(<<>>, [i \in 1..Len(lcAst.children) |-> << i >>], FALSE) >>
    /\ LetConstOthersIdle

ForLoopNext ==
    \/ VariableDeclarationScope
    \/ StatementScopeBegins
    \/ StatementScopeReturns
    \/ ForStatementBegins
    \/ ForStatementLoops
    \/ ForStatementReturns
    \/ UpdateExpressionScope
    \/ LetConstDfScopingReturns

SpecForLoop == ForLoopInit /\ [][ForLoopNext]_vars

\* the frames of the for statements being expanded
ForFrames == {f \in DOMAIN lcFrames : Sub(lcAst, lcFrames[f].node).name = "ForStatement"}

\* ---- C24
\* C24: the body and the update of a for statement are traversed at most
\* LIMIT_LOOP times, and only when the test evaluates truthy: a test that
\* evaluates to false or to another falsy constant leaves the body
\* untraversed.
C24_ForExpansionFollowsTest ==
    \A f \in ForFrames :
        LET test == TestValue(Append(lcFrames[f].node, 2))
        IN /\ lcFrames[f].loop <= LIMIT_LOOP
           /\ ~Truthy(test.value) => lcFrames[f].loop = 0


(***************************************************************************)
(* Failures during inter-page resolution                                   *)
(***************************************************************************)
\* taintmini.py:85-93: the lines the inter-page listener writes on "kill";
\* an exception of handle_inter_page_data leaves the try block before the
\* first write
IpRowsWritten(results) ==
    IF results.kind = "ok"
    THEN [i \in DOMAIN results.value |-> IpRow(results.value[i])]
    ELSE <<>>

\* the event records whose processing raises (inter_page.py:65 on a None
\* source set)
FailingRecords ==
    {c \in DictKeys(ipStore.page_events) \X (1..MaxEvents + 1) :
        /\ c[2] \in DOMAIN StoredEvents(c[1])
        /\ StoredEvents(c[1])[c[2]].event_type = "emit"
        /\ StoredEvents(c[1])[c[2]].event_emitter = EmitterNavigate
        /\ StoredEvents(c[1])[c[2]].event_data_source = NoSources}

\* C28: when one event record fails during inter-page resolution (an emit
\* event whose source set is absent), the listener goes on with the next
\* record: every cross-page flow that the remaining records resolve to is
\* written to the inter-page CSV.
C28_RemainingFlowsWritten ==
    (ipPc = "resolved" /\ ipStore.instance) =>
        \A r \in InterPageRecords :
            C2_Combinations(r) # {} =>
                \E i \in DOMAIN IpRowsWritten(ipOut) : IpRowsWritten(ipOut)[i] = IpRow(r)

(***************************************************************************)
(* Termination of analyze_mini_program                                     *)
(***************************************************************************)
\* C29: for every value of the jobs option and every CPU count, with page
\* workers that end, analyze_mini_program runs every page worker, puts "kill"
\* on both queues, both listeners end and the call returns.
C29_AnalyzeReturns ==
    <>(/\ mpc = "returned"
       /\ \A p \in Pages : Ended(p)
       /\ lpc = "done"
       /\ iplpc = "done")


(***************************************************************************)
(* Value.set_provenance (node.py:301-336)                                  *)
(***************************************************************************)
MaxValues == 3          \* value-bearing nodes (Identifier, ValueExpr)
MaxProvenanceCalls == 3 \* calls of set_provenance in one run

\* nodes are told apart by kind and number
ValueNodes == {<< "Value", n >> : n \in 1..MaxValues}
\* a node that is no Value (node.py:79, 378): an ExpressionStatement whose
\* children are the first two value-bearing nodes
PlainNode == << "Node", 0 >>
PlainChildren == << << "Value", 1 >>, << "Value", 2 >> >>
\* an extremity that is no Node (node.py:307)
NoExtremity == << "None", 0 >>
Extremities == ValueNodes \cup {NoExtremity, PlainNode}

\* node.py:251-258: Value.__init__ (the sets are kept as sets, the lists as
\* sequences in appending order)
NewValue ==
    [provenance_children |-> <<>>, provenance_parents |-> <<>>,
     provenance_children_set |-> {}, provenance_parents_set |-> {}]

\* `if x not in s: s.add(x); l.append(x)` on the parents of node n
AddParent(nodes, n, x) ==
    IF x \in nodes[n].provenance_parents_set THEN nodes
    ELSE [nodes EXCEPT ![n].provenance_parents_set = @ \cup {x},
                       ![n].provenance_parents = Append(@, x)]

\* `if x not in s: s.add(x); l.append(x)` on the children of node n
AddChild(nodes, n, x) ==
    IF x \in nodes[n].provenance_children_set THEN nodes
    ELSE [nodes EXCEPT ![n].provenance_children_set = @ \cup {x},
                       ![n].provenance_children = Append(@, x)]

RECURSIVE AddParents(_, _, _)
\* node.py:312-315: the loop over a list of parents taken before the loop
AddParents(nodes, n, xs) ==
    IF xs = <<>> THEN nodes ELSE AddParents(AddParent(nodes, n, Head(xs)), n, Tail(xs))

RECURSIVE AddChildren(_, _, _)
\* node.py:321-324: the loop over a list of children taken before the loop
AddChildren(nodes, n, xs) ==
    IF xs = <<>> THEN nodes ELSE AddChildren(AddChild(nodes, n, Head(xs)), n, Tail(xs))

\* node.py:310-329: the extremity is a Value. Python iterates the live list:
\* when self is the extremity the list grows under the loop, but every
\* appended element is already in the set, so the result is the same.
set_provenance_value(nodes, self, extremity) ==
    LET withParents ==
            IF nodes[extremity].provenance_parents # <<>>
            THEN AddParents(nodes, self, nodes[extremity].provenance_parents)
            ELSE AddParent(nodes, self, extremity)
    IN  IF withParents[self].provenance_children # <<>>
        THEN AddChildren(withParents, extremity, withParents[self].provenance_children)
        ELSE AddChild(withParents, extremity, self)

RECURSIVE set_provenance_each(_, _, _)
\* node.py:335-336: for extremity_child in extremity.children
set_provenance_each(nodes, self, children) ==
    IF children = <<>> THEN nodes
    ELSE set_provenance_each(set_provenance_value(nodes, self, Head(children)),
                             self, Tail(children))

\* node.py:301-336
set_provenance(nodes, self, extremity) ==
    IF extremity = NoExtremity
    THEN AddParent(nodes, self, self)
    ELSE IF extremity \in ValueNodes
    THEN set_provenance_value(nodes, self, extremity)
    ELSE set_provenance_each(
             [nodes EXCEPT ![self].provenance_parents_set = @ \cup {extremity},
                           ![self].provenance_parents = Append(@, extremity)],
             self, PlainChildren)

\* js_operators.py:123-125, 393-394; data_flow.py:540, 805, 911: one call
SetProvenance(self, extremity) ==
    /\ Len(pvCalls) < MaxProvenanceCalls
    /\ pvNodes # <<>>
    /\ pvNodes' = set_provenance(pvNodes, self, extremity)
    /\ pvCalls' = Append(pvCalls, << self, extremity >>)
    /\ UNCHANGED pvOthers

\* node.py:251-258: freshly built nodes
ProvenanceInit ==
    /\ pvNodes = [n \in ValueNodes |-> NewValue]
    /\ pvCalls = <<>>
    /\ ProvenanceOthersIdle

ProvenanceNext ==
    \E self \in ValueNodes : \E extremity \in Extremities : SetProvenance(self, extremity)

SpecProvenance == ProvenanceInit /\ [][ProvenanceNext]_vars

\* every call so far had a value-bearing extremity
OnlyValueCalls == \A i \in DOMAIN pvCalls : pvCalls[i][2] \in ValueNodes

Elements(list) == {list[i] : i \in DOMAIN list}
DuplicateFree(list) == \A i, j \in DOMAIN list : list[i] = list[j] => i = j

\* C26 (second half): after any sequence of calls between value-bearing
\* nodes each provenance list is duplicate-free and has the elements of its
\* companion set.
ProvenanceListsMatchSets ==
    OnlyValueCalls =>
        \A n \in ValueNodes :
            /\ DuplicateFree(pvNodes[n].provenance_parents)
            /\ DuplicateFree(pvNodes[n].provenance_children)
            /\ Elements(pvNodes[n].provenance_parents) = pvNodes[n].provenance_parents_set
            /\ Elements(pvNodes[n].provenance_children) = pvNodes[n].provenance_children_set

\* C26: after Y.set_provenance(X) for value-bearing nodes X and Y, X is in
\* Y's provenance parents and Y in X's provenance children, Y's parents hold
\* all of X's parents and X's children all of Y's; after any sequence of such
\* calls each provenance list is duplicate-free and has the elements of its
\* companion set.
C26_ProvenanceLinksBothWays ==
    /\ ProvenanceListsMatchSets
    /\ (pvCalls # <<>> /\ OnlyValueCalls) =>
          LET Y == pvCalls[Len(pvCalls)][1]
              X == pvCalls[Len(pvCalls)][2]
          IN  /\ X \in pvNodes[Y].provenance_parents_set
              /\ Y \in pvNodes[X].provenance_children_set
              /\ pvNodes[X].provenance_parents_set \subseteq pvNodes[Y].provenance_parents_set
              /\ pvNodes[Y].provenance_children_set \subseteq pvNodes[X].provenance_children_set


(***************************************************************************)
(* handle_call_expr (data_flow.py:821-891): the parameters' value cells    *)
(***************************************************************************)
MaxParams == 3          \* parameters of the called function
MaxArgs == 3            \* arguments of a call, expressions of a template
MaxInvocations == 2     \* calls of the function in one script

\* values of a cell: None, the name of parameter i, argument k of call c,
\* and the list of template elements of call c
NoValue == << "None", 0, 0 >>
ParamName(i) == << "name", 0, i >>
ArgValue(c, k) == << "arg", c, k >>
TemplateElements(c) == << "quasis", c, 0 >>

\* js_operators.py:100-149 on a parameter Identifier: its value cell, or its
\* name when the cell is None (get_node_value, js_operators.py:44-46); the
\* value is also stored in the cell (js_operators.py:145-147), which every
\* caller below overwrites at once
ParamComputedValue(params, i) ==
    IF params[i] = NoValue THEN ParamName(i) ELSE params[i]

RECURSIVE handle_arg_call_expr(_, _, _, _, _)
\* data_flow.py:846-856: the loop over fun_params from parameter i on, for a
\* call c with nargs arguments; gives the cells and saved_params
handle_arg_call_expr(params, saved, i, c, nargs) ==
    IF i > Len(params) THEN [params |-> params, saved |-> saved]
    ELSE IF i <= nargs
    THEN handle_arg_call_expr([params EXCEPT ![i] = ArgValue(c, i)],
                              Append(saved, ParamComputedValue(params, i)), i + 1, c, nargs)
    ELSE handle_arg_call_expr([params EXCEPT ![i] = NoValue], saved, i + 1, c, nargs)

RECURSIVE handle_arg_tagged_rest(_, _, _, _, _)
\* data_flow.py:786-794: the loop over fun_params[1:], for a template with
\* nexprs expressions
handle_arg_tagged_rest(params, saved, i, c, nexprs) ==
    IF i > Len(params) THEN [params |-> params, saved |-> saved]
    ELSE handle_arg_tagged_rest(
             [params EXCEPT ![i] = IF i - 1 <= nexprs THEN ArgValue(c, i - 1) ELSE NoValue],
             Append(saved, ParamComputedValue(params, i)), i + 1, c, nexprs)

\* data_flow.py:759-798, for a function with a first parameter
handle_arg_tagged_template_expr(params, c, nexprs) ==
    LET rest == handle_arg_tagged_rest(params, <<>>, 2, c, nexprs)
    IN  [params |-> [rest.params EXCEPT ![1] = TemplateElements(c)],
         saved |-> Append(rest.saved, ParamComputedValue(params, 1))]

\* data_flow.py:887-889
RestoreParams(bound) ==
    IF Len(bound.params) = Len(bound.saved) THEN bound.saved ELSE bound.params

\* data_flow.py:821-891 for an ordinary call with nargs arguments
HandleCallExpr(nargs) ==
    /\ Len(ceCalls) < MaxInvocations
    /\ LET c == Len(ceCalls) + 1
       IN  /\ ceParams' = RestoreParams(handle_arg_call_expr(ceParams, <<>>, 1, c, nargs))
           /\ ceCalls' = Append(ceCalls, [tagged |-> FALSE, args |-> nargs,
                                          before |-> ceParams, raised |-> FALSE])
    /\ UNCHANGED ceOthers

\* data_flow.py:821-891 for a tagged template with nexprs expressions; with
\* no parameter, callee.fun_params[0] raises IndexError (data_flow.py:795),
\* which data_flow drops (data_flow.py:1171-1186) before the next statement
HandleTaggedTemplateExpr(nexprs) ==
    /\ Len(ceCalls) < MaxInvocations
    /\ LET c == Len(ceCalls) + 1
       IN  /\ ceParams' = IF ceParams = <<>> THEN ceParams
                          ELSE RestoreParams(handle_arg_tagged_template_expr(ceParams, c, nexprs))
           /\ ceCalls' = Append(ceCalls, [tagged |-> TRUE, args |-> nexprs,
                                          before |-> ceParams, raised |-> ceParams = <<>>])
    /\ UNCHANGED ceOthers

\* node.py:251-252: the cells of the parameters of a function not yet called
CallExprInit ==
    /\ ceParams \in {[i \in 1..n |-> NoValue] : n \in 0..MaxParams}
    /\ ceCalls = <<>>
    /\ CallExprOthersIdle

CallExprNext ==
    \/ \E nargs \in 0..MaxArgs : HandleCallExpr(nargs)
    \/ \E nexprs \in 0..MaxArgs : HandleTaggedTemplateExpr(nexprs)

SpecCallExpr == CallExprInit /\ [][CallExprNext]_vars

\* the call that returned last
LastCall == ceCalls[Len(ceCalls)]

\* C25: handle_call_expr leaves the value cell of every parameter as it was
\* before the call, for ordinary calls with as many, fewer or more arguments
\* than parameters and for tagged templates with two or more parameters.
C25_ParamsRestored ==
    (ceCalls # <<>> /\ (LastCall.tagged => Len(ceParams) >= 2)) =>
        ceParams = LastCall.before


(***************************************************************************)
(* handle_wxml (wxml.py:5-93) on the PDG of the page                       *)
(***************************************************************************)
MaxForms == 2           \* form elements of the markup
MaxInputs == 1          \* input elements of a form
MaxHandlerParams == 2   \* parameters of the submit handler
MaxNested == 1          \* function declarations in the submit handler's body

\* the methods of the object passed to Page(...); onLoad is
\* `function (e) {}`, the shape of onSubmit varies
PageMethods == {"onSubmit", "onLoad"}
\* what a bind:submit attribute can name: a page method, or a name that is
\* no page method; NoSubmit stands for a form without the attribute
NoSubmit == "no bind:submit"
SubmitNames == PageMethods \cup {"missing", NoSubmit}

\* input elements: a text input, a safe-password input, and one without type
WxmlInputs ==
    { [name |-> "u", type |-> "text"],
      [name |-> "p", type |-> "safe-password"],
      [name |-> "n", type |-> None] }
WxmlForms == [bind_submit : SubmitNames, inputs : SeqsUpTo(WxmlInputs, MaxInputs)]

\* wxml.py:51-63: form_properties["inputs"], as a set of (name, type) pairs
FormInputs(form) ==
    {<< form.inputs[i].name,
        IF form.inputs[i].type = "safe-password" THEN "password" ELSE form.inputs[i].type >> :
        i \in {j \in DOMAIN form.inputs : form.inputs[j].type # None}}

\* build_ast.py: the children of a FunctionExpression without id are its
\* parameters and then its body
FunctionExprChildren(shape) ==
    [k \in 1..shape.params |-> << "param", k >>] \o << << "body", 0 >> >>

\* build_pdg.py:48-59: function_hoisting moves the function declarations of
\* the body to the front of the children of the FunctionExpression
HoistedChildren(shape) ==
    [k \in 1..shape.nested |-> << "decl", k >>] \o FunctionExprChildren(shape)

\* the shape of the FunctionExpression of a page method
MethodShape(method) ==
    IF method = "onSubmit" THEN wxInput.handler ELSE [params |-> 1, nested |-> 0]

\* the nodes below the FunctionExpression of every page method
HandlerNodes ==
    {<< m, n[1], n[2] >> : m \in PageMethods,
        n \in ({"param"} \X (1..MaxHandlerParams)) \cup ({"decl"} \X (1..MaxNested))
              \cup {<< "body", 0 >>}}

NoAttribute == [tagged |-> FALSE, inputs |-> {}]

\* wxml.py:12-24: the Property node of the page method called name, or None
find_page_method_node(name) == IF name \in PageMethods THEN name ELSE None

\* wxml.py:27-29: node.children[1].children[0] is the first child of the
\* FunctionExpression, whatever it is
tag_properties_to_page_method_param_ident_node(attrs, method, inputs) ==
    LET first == HoistedChildren(MethodShape(method))[1]
    IN  [attrs EXCEPT ![<< method, first[1], first[2] >>] =
                          [tagged |-> TRUE, inputs |-> inputs]]

\* wxml.py:38-69 and 32-35 for the next form of the markup, called from
\* visit_wxml_tree (wxml.py:76-93); handle_wxml (wxml.py:5-10) ends the
\* traversal at the first exception: KeyError for a form without bind:submit
\* (wxml.py:66), AttributeError when no page method has the name (wxml.py:29)
HandleWxmlForm ==
    /\ wxVisit.error = "none"
    /\ wxVisit.done < Len(wxInput.forms)
    /\ LET form == wxInput.forms[wxVisit.done + 1]
           node == find_page_method_node(form.bind_submit)
       IN  IF form.bind_submit = NoSubmit
           THEN /\ wxVisit' = [done |-> wxVisit.done + 1, error |-> "KeyError"]
                /\ wxAttrs' = wxAttrs
           ELSE IF node = None
           THEN /\ wxVisit' = [done |-> wxVisit.done + 1, error |-> "AttributeError"]
                /\ wxAttrs' = wxAttrs
           ELSE /\ wxVisit' = [done |-> wxVisit.done + 1, error |-> "none"]
                /\ wxAttrs' = tag_properties_to_page_method_param_ident_node(
                                  wxAttrs, node, FormInputs(form))
    /\ UNCHANGED wxInput
    /\ UNCHANGED wxOthers

\* taintmini.py:48-52: the PDG of the page is built and stored before the
\* markup is read; no node carries double_binding_values
WxmlInit ==
    /\ wxInput \in [handler : [params : 0..MaxHandlerParams, nested : 0..MaxNested],
                    forms : SeqsUpTo(WxmlForms, MaxForms)]
    /\ wxAttrs = [n \in HandlerNodes |-> NoAttribute]
    /\ wxVisit = [done |-> 0, error |-> "none"]
    /\ WxmlOthersIdle

WxmlNext == HandleWxmlForm

SpecWxml == WxmlInit /\ [][WxmlNext]_vars

\* handle_wxml has returned
WxmlReturned == wxVisit.error # "none" \/ wxVisit.done = Len(wxInput.forms)

\* the forms that name page method m
FormsNaming(m) == {i \in DOMAIN wxInput.forms : wxInput.forms[i].bind_submit = m}

\* C27: for every form that names a submit handler which is a page method,
\* the input-name to input-type map is stored under double_binding_values on
\* the first parameter identifier of the handler's function and on no other
\* node, also when the handler's body has nested function declarations and
\* when the markup has other forms, with or without a submit handler.  (Of
\* several forms naming one handler the last one's map is the one to find.)
C27_MapOnFirstParameter ==
    WxmlReturned =>
        /\ \A m \in PageMethods :
              (FormsNaming(m) # {} /\ MethodShape(m).params >= 1) =>
                  LET last == CHOOSE i \in FormsNaming(m) : \A j \in FormsNaming(m) : j <= i
                  IN  /\ wxAttrs[<< m, "param", 1 >>].tagged
                      /\ wxAttrs[<< m, "param", 1 >>].inputs = FormInputs(wxInput.forms[last])
        /\ \A n \in HandlerNodes :
              (wxAttrs[n].tagged /\ MethodShape(n[1]).params >= 1) =>
                  (n[2] = "param" /\ n[3] = 1 /\ FormsNaming(n[1]) # {})

(***************************************************************************)
(* Scopes through blocks and the two branches of a conditional:            *)
(* scope.py Scope; data_flow.py var_decl_df, assignment_df, set_df, the    *)
(* VariableDeclaration and Statement branches of build_dfg_content,        *)
(* statement_scope, get_var_branch, merge_var_boolean_cf,                  *)
(* handle_several_branches, let_const_scope, go_out_bloc, function_scope.  *)
(*                                                                         *)
(* A statement of the program, or of the body of the one function f the    *)
(* program may declare, is one of                                          *)
(*     var v = 1;   let v = 1;   v = 1;   v;   { ... }                     *)
(*     if (c) { ... }      if (c) { ... } else { ... }                     *)
(* where a block holds declarations, an arm holds a declaration with var   *)
(* or an assignment of x, and c is declared nowhere.  The program is its   *)
(* statements, or the declaration of f alone with the statements in the    *)
(* body of f.  Statement i has the nodes <<i, 0, 0>>, its identifier *)
(* or test; <<i, 1, 0>> and <<i, 2, 0>>, its block or consequent and its   *)
(* alternate; <<i, a, j>>, the identifier of statement j of block a.       *)
(* unknown_var is not followed: nothing here is hoisted.                   *)
(***************************************************************************)
MaxTraversed == 3  \* statements of the program, or of the body of f
MaxBlock == 2      \* statements of a block
MaxArm == 1        \* statements of an arm of a conditional

BranchVars == {"x", "y"}

Ident(name, at) == [name |-> name, at |-> at]

ProgramNode == <<0, 0, 0>>

VarDeclarations == [type : {"VariableDeclaration"}, kind : {"var", "let"}, name : BranchVars]

Assignments == [type : {"AssignmentExpression"}, kind : {"="}, name : BranchVars]

Reads == [type : {"Identifier"}, kind : {"read"}, name : BranchVars]

\* the parser refuses a name declared with let and declared again in the
\* same block
BlockBodies ==
    {b \in UNION {[1..n -> VarDeclarations] : n \in 0..MaxBlock} :
        \A i, j \in DOMAIN b : (i # j /\ b[i].kind = "let") => b[i].name # b[j].name}

\* the arms of the conditionals write ArmVar
ArmVar == "x"

ArmBodies ==
    UNION {[1..n -> {s \in VarDeclarations \cup Assignments :
                        s.kind # "let" /\ s.name = ArmVar}] : n \in 0..MaxArm}

\* one traversed statement as bsScript keeps it; entry is the entry the
\* statement was traversed with: 1 in the program, 0 in the body of f
Handled(type, kind, name, consequent, alternate, else, entry) ==
    [type |-> type, kind |-> kind, name |-> name, consequent |-> consequent,
     alternate |-> alternate, else |-> else, entry |-> entry]

\* ---- scope.py: an entry of var_if2_list is None, a list, kept in
\* bsRun.heap because copy_scope copies the outer list only, or, once
\* handle_several_branches has extended the list, an Identifier
NoIdent == Ident("", ProgramNode)
NoneEntry == <<"None", 0, NoIdent>>
ListEntry(ref) == <<"list", ref, NoIdent>>
NodeEntry(node) == <<"node", 0, node>>

NewScope(name, of) ==
    [name |-> name, of |-> of, var_list |-> <<>>, var_if2_list |-> <<>>, bloc |-> FALSE]

add_var(scope, node) ==
    [scope EXCEPT !.var_list = Append(@, node), !.var_if2_list = Append(@, NoneEntry)]

update_var(scope, index, node) ==
    [scope EXCEPT !.var_list[index] = node, !.var_if2_list[index] = NoneEntry]

\* sh is a scope and the lists: [scope |-> ..., heap |-> ...]
update_var_if2(sh, index, list) ==
    [scope |-> [sh.scope EXCEPT !.var_if2_list[index] = ListEntry(Len(sh.heap) + 1)],
     heap |-> Append(sh.heap, list)]

add_var_if2(sh, index, node) ==
    IF sh.scope.var_if2_list[index][1] # "list"
    THEN update_var_if2(sh, index, << node >>)
    ELSE [sh EXCEPT !.heap[sh.scope.var_if2_list[index][2]] = Append(@, node)]

\* the value of an entry as == of Python sees it
EntryValue(heap, e) == IF e[1] = "list" THEN << "list", heap[e[2]] >> ELSE << e[1], << e[3] >> >>

is_equal(heap, a, b) ==
    /\ a.var_list = b.var_list
    /\ Len(a.var_if2_list) = Len(b.var_if2_list)
    /\ \A i \in 1..Len(a.var_if2_list) :
            EntryValue(heap, a.var_if2_list[i]) = EntryValue(heap, b.var_if2_list[i])

\* name, var_list and var_if2_list are copied one level deep; bloc is not
copy_scope(scope) == [scope EXCEPT !.bloc = FALSE]

\* Scope.get_pos_identifier: first position of the name, 0 for None
PosInScope(scope, name) ==
    LET I == {i \in 1..Len(scope.var_list) : scope.var_list[i].name = name}
    IN  IF I = {} THEN 0 ELSE CHOOSE i \in I : \A j \in I : i <= j

\* get_pos_identifier on scopes[lo..hi], searched from the last one
PosInScopes(name, scopes, lo, hi) ==
    LET J == {j \in lo..hi : PosInScope(scopes[j], name) # 0}
    IN  IF J = {} THEN [var_index |-> 0, scope_index |-> 0]
        ELSE LET j == CHOOSE k \in J : \A m \in J : m <= k
             IN  [var_index |-> PosInScope(scopes[j], name), scope_index |-> j]

\* the element of a singleton: The({F(x) : x \in {e}}) is F(e) with e named
\* x, for an F that uses it more than once
The(S) == CHOOSE x \in S : TRUE

\* ---- data_flow.py; st is [scopes, heap, deps, entry]
\* set_df: from every Identifier of the list of var_if2_list, else from the
\* Identifier of var_list
SetDf(st, scope_index, var_index, node) ==
    LET scope == st.scopes[scope_index]
        e == scope.var_if2_list[var_index]
    IN  IF e[1] = "list"
        THEN [st EXCEPT !.deps = set_data_dep_each(st.heap[e[2]], node, @)]
        ELSE [st EXCEPT !.deps = set_data_dependency(@, scope.var_list[var_index], node)]

\* assignment_df with update = False
AssignmentDf(node, st) ==
    LET pos == PosInScopes(node.name, st.scopes, 1, Len(st.scopes))
    IN  IF pos.var_index # 0 THEN SetDf(st, pos.scope_index, pos.var_index, node) ELSE st

OnLetConst(scope) == scope.name = "let_const"

IsBranch(scope) == scope.name \in {"Branch_true", "Branch_false"}

OnScope(st, j, sh) == [st EXCEPT !.scopes[j] = sh.scope, !.heap = sh.heap]

\* var_decl_df with obj = False
VarDeclDf(node, st, entry, assignt, let_const) ==
    LET n == Len(st.scopes)
        own == let_const \/ OnLetConst(st.scopes[n])
        global == /\ ~own
                  /\ \/ n = 1
                     \/ entry = 1
                     \/ assignt /\ PosInScopes(node.name, st.scopes, 2, n).var_index = 0
        lo == IF own THEN n ELSE IF global THEN 1 ELSE 2
        hi == IF global THEN 1 ELSE n
        pos == PosInScopes(node.name, st.scopes, lo, hi)
    IN  IF pos.var_index = 0
        THEN [st EXCEPT !.scopes[hi] = add_var(@, node)]
        ELSE IF assignt
             THEN OnScope(st, pos.scope_index,
                          add_var_if2([scope |-> st.scopes[pos.scope_index], heap |-> st.heap],
                                      pos.var_index, node))
             ELSE [st EXCEPT !.scopes[pos.scope_index] = update_var(@, pos.var_index, node)]

\* let_const_scope
LetConstScope(node, st) ==
    LET n == Len(st.scopes)
    IN  IF n > 1 /\ OnLetConst(st.scopes[n]) /\ st.scopes[n].of = node
        THEN [st EXCEPT !.scopes = Pop(@)]
        ELSE IF /\ n > 2
                /\ IsBranch(st.scopes[n])
                /\ OnLetConst(st.scopes[n - 1])
                /\ st.scopes[n - 1].of = node
             THEN [st EXCEPT !.scopes = SubSeq(@, 1, n - 2) \o << @[n] >>]
             ELSE st

\* the Statement branch of build_dfg_content before statement_scope
InBloc(st) == [st EXCEPT !.scopes[Len(st.scopes)].bloc = TRUE]

\* the VariableDeclaration branch of build_dfg_content on `kind v = 1`
VariableDeclarationIn(s, at, parent, st, entry) ==
    LET n == Len(st.scopes)
        let_const == s.kind # "var" /\ st.scopes[n].bloc
        opened == IF let_const /\ ~(OnLetConst(st.scopes[n]) /\ st.scopes[n].of = parent)
                  THEN [st EXCEPT !.scopes = Append(@, NewScope("let_const", parent))]
                  ELSE st
    IN  VarDeclDf(Ident(s.name, at), opened, entry, FALSE, let_const)

\* the Statement branch on the ExpressionStatement `v = 1`: assignment_expr_df
AssignmentExpressionDf(s, at, st, entry) ==
    LET already_in_bloc == Last(st.scopes).bloc
        assigned == VarDeclDf(Ident(s.name, at), InBloc(st), entry, TRUE, FALSE)
    IN  go_out_bloc(LetConstScope(at, assigned), already_in_bloc)

\* the Statement branch on the ExpressionStatement `v`: identifier_update
IdentifierDf(s, at, st) ==
    LET already_in_bloc == Last(st.scopes).bloc
        used == AssignmentDf(Ident(s.name, at), InBloc(st))
    IN  go_out_bloc(LetConstScope(at, used), already_in_bloc)

SimpleDf(s, at, parent, st, entry) ==
    CASE s.type = "VariableDeclaration" -> VariableDeclarationIn(s, at, parent, st, entry)
      [] s.type = "AssignmentExpression" -> AssignmentExpressionDf(s, at, st, entry)
      [] OTHER -> IdentifierDf(s, at, st)

\* statement_scope on a block: its statements hang by epsilon dependencies
RECURSIVE EpsilonEach(_, _, _, _, _)
EpsilonEach(body, j, block, st, entry) ==
    IF j > Len(body) THEN st
    ELSE EpsilonEach(body, j + 1, block,
                     SimpleDf(body[j], << block[1], block[2], j >>, block, st, entry), entry)

\* the Statement branch on the BlockStatement `block`
BlockStatementDf(body, block, st, entry) ==
    The({go_out_bloc(LetConstScope(block, walked), Last(st.scopes).bloc) :
            walked \in {EpsilonEach(body, 1, block, InBloc(st), entry)}})

\* get_var_branch after the arm: the two scopes popped, the copy put back
BranchPopped(walked, global_scope) ==
    [st |-> [walked EXCEPT !.scopes = << global_scope >> \o SubSeq(@, 2, Len(@) - 1)],
     local_scope_cf |-> Last(walked.scopes),
     global_scope_cf |-> walked.scopes[1]]

\* the Branch scope appended
BranchPushed(st, scope_name) ==
    [st EXCEPT !.scopes = Append(@, NewScope(scope_name, ProgramNode))]

\* get_var_branch: node_list is the block of the arm, or nothing
get_var_branch(has, body, block, st, entry, scope_name) ==
    The({BranchPopped(walked, copy_scope(st.scopes[1])) :
            walked \in {IF has
                        THEN BlockStatementDf(body, block, BranchPushed(st, scope_name), entry)
                        ELSE BranchPushed(st, scope_name)}})

Range(s) == {s[i] : i \in DOMAIN s}

RECURSIVE merge_each(_, _, _)
merge_each(falses, current_scope, sh) ==
    IF falses = <<>> THEN sh
    ELSE LET node_false == Head(falses)
             var_index == PosInScope(sh.scope, node_false.name)
             node_true == sh.scope.var_list[var_index]
             next ==
                 IF var_index = 0 THEN [sh EXCEPT !.scope = add_var(@, node_false)]
                 ELSE IF node_true = node_false THEN sh
                 ELSE IF node_true \in Range(current_scope.var_list)
                      THEN [sh EXCEPT !.scope = update_var(@, var_index, node_false)]
                 ELSE IF node_false \in Range(current_scope.var_list) THEN sh
                 ELSE update_var_if2(sh, var_index, << node_true, node_false >>)
         IN  merge_each(Tail(falses), current_scope, next)

\* returns scope_true, merged, and the lists
merge_var_boolean_cf(current_scope, scope_true, scope_false, heap) ==
    merge_each(scope_false.var_list, current_scope, [scope |-> scope_true, heap |-> heap])

\* `current_scope.add_var(cond_node)` for the names current_scope lacks
RECURSIVE AddMissing(_, _)
AddMissing(nodes, scope) ==
    IF nodes = <<>> THEN scope
    ELSE AddMissing(Tail(nodes),
                    IF PosInScope(scope, Head(nodes).name) = 0
                    THEN add_var(scope, Head(nodes)) ELSE scope)

\* `current_scope.var_if2_list.extend(cond_node_list)` for every list
RECURSIVE ExtendIf2(_, _, _)
ExtendIf2(entries, heap, scope) ==
    IF entries = <<>> THEN scope
    ELSE ExtendIf2(Tail(entries), heap,
            IF Head(entries)[1] = "list"
            THEN [scope EXCEPT !.var_if2_list =
                    @ \o [k \in 1..Len(heap[Head(entries)[2]]) |->
                            NodeEntry(heap[Head(entries)[2]][k])]]
            ELSE scope)

\* the local scopes of the arms differ: cond_scope is added to the current
\* scope, the last one
LocalsMerged(st, cond) ==
    [st EXCEPT
        !.heap = cond.heap,
        !.scopes[Len(st.scopes)] = ExtendIf2(cond.scope.var_if2_list, cond.heap,
                                             AddMissing(cond.scope.var_list, @))]

MergeLocals(t, f, st) ==
    IF is_equal(st.heap, t.local_scope_cf, f.local_scope_cf) THEN st
    ELSE The({LocalsMerged(st, cond) :
                cond \in {merge_var_boolean_cf(Last(st.scopes), t.local_scope_cf,
                                               f.local_scope_cf, st.heap)}})

\* the global scopes of the arms differ: the merged one replaces scopes[0]
MergeGlobals(t, f) ==
    IF is_equal(f.st.heap, t.global_scope_cf, f.global_scope_cf) THEN f.st
    ELSE OnScope(f.st, 1,
                 merge_var_boolean_cf(f.st.scopes[1], t.global_scope_cf,
                                      f.global_scope_cf, f.st.heap))

\* t and f are what get_var_branch returned for the two arms
BranchesMerged(t, f) == The({MergeLocals(t, f, globals) : globals \in {MergeGlobals(t, f)}})

FalseBranch(s, i, t, entry) ==
    The({BranchesMerged(t, f) :
            f \in {get_var_branch(s.else, s.alternate, << i, 2, 0 >>, t.st, entry,
                                  "Branch_false")}})

handle_several_branches(s, i, st, entry) ==
    The({FalseBranch(s, i, t, entry) :
            t \in {get_var_branch(TRUE, s.consequent, << i, 1, 0 >>, st, entry,
                                  "Branch_true")}})

\* the Statement branch on the IfStatement i: the test reads c, which no
\* scope knows, and get_node_computed_value gives no bool for it
IfStatementDf(s, i, st, entry) ==
    The({go_out_bloc(LetConstScope(<< i, 0, 0 >>, branched), Last(st.scopes).bloc) :
            branched \in {handle_several_branches(s, i, InBloc(st), entry)}})

\* ---- the traversal
BodyNode == IF bsRun.entry = 1 THEN ProgramNode ELSE << 1, 1, 0 >>

\* the names a statement declares in the body it is a statement of: its
\* own, and those its blocks declare with var
DeclaredBy(s) ==
    IF s.type = "VariableDeclaration" THEN {s.name}
    ELSE {s.consequent[j].name : j \in {g \in DOMAIN s.consequent : s.consequent[g].kind = "var"}}
         \cup {s.alternate[j].name : j \in {g \in DOMAIN s.alternate : s.alternate[g].kind = "var"}}

\* the parser refuses a body that declares a name with let and, elsewhere
\* in the body or with var in one of its blocks, again
Parses(script) ==
    \A i, h \in DOMAIN script :
        (/\ i # h
         /\ script[i].entry = script[h].entry
         /\ script[i].type = "VariableDeclaration"
         /\ script[i].kind = "let") => script[i].name \notin DeclaredBy(script[h])

\* the body of f has ended: nothing follows the declaration of f
FunctionLeft == bsScript # <<>> /\ bsScript[1].type = "FunctionDeclaration" /\ bsRun.entry = 1

BranchTraversed(s, st) ==
    /\ ~FunctionLeft
    /\ Parses(Append(bsScript, s))
    /\ bsScript' = Append(bsScript, s)
    /\ bsRun' = st
    /\ UNCHANGED bsOthers

StatementsTraversed == Len(SelectSeq(bsScript, LAMBDA s : s.type # "FunctionDeclaration"))

\* function_scope on `function f() {`: the Function scope, the name, which
\* var_decl_df puts in scopes[:-1], and the Statement branch on the body
FunctionScopeEnters ==
    /\ bsScript = <<>>
    /\ bsRun.entry = 1
    /\ bsScript' = << Handled("FunctionDeclaration", "", "f", <<>>, <<>>, FALSE, 1) >>
    /\ bsRun' =
         LET named == VarDeclDf(Ident("f", << 1, 0, 0 >>), bsRun, 0, FALSE, FALSE)
             pushed == [named EXCEPT !.scopes = Append(@, NewScope("Function", << 1, 0, 0 >>))]
             body == InBloc(pushed)
         IN  [bsRun EXCEPT !.scopes = body.scopes, !.entry = 0]
    /\ UNCHANGED bsOthers

\* the end of the body of f, and function_scope after it
FunctionScopeLeaves ==
    /\ bsRun.entry = 0
    /\ bsRun' =
         LET left == go_out_bloc(LetConstScope(<< 1, 1, 0 >>, bsRun), FALSE)
             done == LetConstScope(<< 1, 0, 0 >>, left)
         IN  [bsRun EXCEPT !.scopes = Pop(done.scopes), !.entry = 1]
    /\ UNCHANGED bsScript
    /\ UNCHANGED bsOthers

DeclaresVariable ==
    /\ StatementsTraversed < MaxTraversed
    /\ \E s \in VarDeclarations :
         BranchTraversed(
            Handled(s.type, s.kind, s.name, <<>>, <<>>, FALSE, bsRun.entry),
            VariableDeclarationIn(s, << Len(bsScript) + 1, 0, 0 >>, BodyNode, bsRun,
                                  bsRun.entry))

AssignsVariable ==
    /\ StatementsTraversed < MaxTraversed
    /\ \E s \in Assignments :
         BranchTraversed(
            Handled(s.type, s.kind, s.name, <<>>, <<>>, FALSE, bsRun.entry),
            AssignmentExpressionDf(s, << Len(bsScript) + 1, 0, 0 >>, bsRun, bsRun.entry))

ReadsVariable ==
    /\ StatementsTraversed < MaxTraversed
    /\ \E s \in Reads :
         BranchTraversed(
            Handled(s.type, s.kind, s.name, <<>>, <<>>, FALSE, bsRun.entry),
            IdentifierDf(s, << Len(bsScript) + 1, 0, 0 >>, bsRun))

TraversesBlock ==
    /\ StatementsTraversed < MaxTraversed
    /\ \E body \in BlockBodies :
         BranchTraversed(
            Handled("BlockStatement", "", "", body, <<>>, FALSE, bsRun.entry),
            BlockStatementDf(body, << Len(bsScript) + 1, 1, 0 >>, bsRun, bsRun.entry))

TraversesIf ==
    /\ StatementsTraversed < MaxTraversed
    /\ \E consequent \in ArmBodies, alternate \in ArmBodies, else \in BOOLEAN :
         /\ ~else => alternate = <<>>
         /\ LET s == Handled("IfStatement", "", "c", consequent, alternate, else, bsRun.entry)
            IN  BranchTraversed(s, IfStatementDf(s, Len(bsScript) + 1, bsRun, bsRun.entry))

BranchesInit ==
    /\ bsScript = <<>>
    /\ bsRun = [scopes |-> << NewScope("Global", ProgramNode) >>, heap |-> <<>>,
                deps |-> <<>>, entry |-> 1]
    /\ BranchesOthersIdle

BranchesNext ==
    \/ FunctionScopeEnters
    \/ FunctionScopeLeaves
    \/ DeclaresVariable
    \/ AssignsVariable
    \/ ReadsVariable
    \/ TraversesBlock
    \/ TraversesIf

SpecBranches == BranchesInit /\ [][BranchesNext]_vars

\* the data dependencies that end at the read `v;` traversed as statement k
WritersOf(k) == {d[1] : d \in {e \in Range(bsRun.deps) : e[2].at = << k, 0, 0 >>}}

\* statement k reads v in the body statement i belongs to, after it, and no
\* statement between the two names v
ReadsAfter(i, k, v) ==
    /\ k \in DOMAIN bsScript
    /\ i < k
    /\ bsScript[k].type = "Identifier"
    /\ bsScript[k].name = v
    /\ bsScript[k].entry = bsScript[i].entry
    /\ \A h \in (i + 1)..(k - 1) :
          /\ bsScript[h].name # v
          /\ \A g \in DOMAIN bsScript[h].consequent : bsScript[h].consequent[g].name # v
          /\ \A g \in DOMAIN bsScript[h].alternate : bsScript[h].alternate[g].name # v

DeclaredIn(i, kind) ==
    {j \in DOMAIN bsScript[i].consequent : bsScript[i].consequent[j].kind = kind}

\* C21: a let declared in a block is in the scope of that block, so no read
\* after the block depends on it; a var declared in a block is in the
\* function or global scope, whatever else the block declares, so a read
\* of it after the block, in the same body, depends on a writer
C21_DeclarationKindChoosesScope ==
    \A i \in DOMAIN bsScript : bsScript[i].type = "BlockStatement" =>
        /\ \A j \in DeclaredIn(i, "let") : \A d \in Range(bsRun.deps) :
              d[1] # Ident(bsScript[i].consequent[j].name, << i, 1, j >>)
        /\ \A j \in DeclaredIn(i, "var") : \A k \in DOMAIN bsScript :
              ReadsAfter(i, k, bsScript[i].consequent[j].name) => WritersOf(k) # {}

\* no data dependency starts at a let of a block: this much holds
LetStaysInBlock ==
    \A i \in DOMAIN bsScript : bsScript[i].type = "BlockStatement" =>
        \A j \in DeclaredIn(i, "let") : \A d \in Range(bsRun.deps) :
            d[1] # Ident(bsScript[i].consequent[j].name, << i, 1, j >>)

\* the arm of the conditional i assigns v: its writer, else nothing
ArmWriters(i, arm, v) ==
    LET body == IF arm = 1 THEN bsScript[i].consequent ELSE bsScript[i].alternate
    IN  {Ident(v, << i, arm, j >>) : j \in {g \in DOMAIN body :
            body[g].type = "AssignmentExpression" /\ body[g].name = v}}

\* v was declared or assigned in the body of the conditional i before it
WrittenBefore(i, v) ==
    \E h \in 1..(i - 1) :
        /\ bsScript[h].type \in {"VariableDeclaration", "AssignmentExpression"}
        /\ bsScript[h].name = v
        /\ bsScript[h].entry = bsScript[i].entry

\* C22: a read after a conditional whose arms assign a variable written
\* before it depends on the writer of each arm that assigned it
C22_ReadDependsOnArmWriters ==
    \A i \in DOMAIN bsScript : \A v \in BranchVars :
        (bsScript[i].type = "IfStatement" /\ WrittenBefore(i, v)) =>
            \A k \in DOMAIN bsScript : ReadsAfter(i, k, v) =>
                ArmWriters(i, 1, v) \cup ArmWriters(i, 2, v) \subseteq WritersOf(k)

\* C30: in every scope var_if2_list is as long as var_list, and its entry i
\* is None or a list of identifiers named like var_list[i]
C30_If2ListParallel ==
    \A j \in DOMAIN bsRun.scopes :
        LET scope == bsRun.scopes[j]
        IN  /\ Len(scope.var_if2_list) = Len(scope.var_list)
            /\ \A i \in DOMAIN scope.var_if2_list :
                  \/ scope.var_if2_list[i] = NoneEntry
                  \/ /\ scope.var_if2_list[i][1] = "list"
                     /\ i \in DOMAIN scope.var_list
                     /\ \A n \in Range(bsRun.heap[scope.var_if2_list[i][2]]) :
                           n.name = scope.var_list[i].name

\* the entries that are lists name their variable: this much holds
ListsNameTheirVariable ==
    \A j \in DOMAIN bsRun.scopes :
        LET scope == bsRun.scopes[j]
        IN  \A i \in DOMAIN scope.var_if2_list :
              (scope.var_if2_list[i][1] = "list" /\ i \in DOMAIN scope.var_list) =>
                  \A n \in Range(bsRun.heap[scope.var_if2_list[i][2]]) :
                      n.name = scope.var_list[i].name

=============================================================================
